---- MODULE Spec2Model ----
(***************************************************************************)
(* PSBT key-value maps of rust-bitcoin (LNP-BP fork):                      *)
(*   util/psbt/map/global.rs  Global  (from_unsigned_tx, insert_pair,      *)
(*                                     get_pairs, consensus_decode)        *)
(*   util/psbt/map/input.rs   Input   (insert_pair, get_pairs)             *)
(*   util/psbt/error.rs       Error                                        *)
(* Bytes are naturals 0..255, byte strings are sequences of bytes.         *)
(* An Option is a sequence of length 0 (None) or 1 (Some), a BTreeMap is a *)
(* function from its keys to its values, a Result is a record with a       *)
(* field res whose kind is "Ok" or the name of the Error variant.          *)
(***************************************************************************)
EXTENDS Integers, Sequences, FiniteSets, TLC

VARIABLES input, in_last, in_calls, in_keys, global, g_last, g_calls, g_keys, dec, std_eof_seek,
          mrg, adr

vars == <<input, in_last, in_calls, in_keys, global, g_last, g_calls, g_keys, dec, std_eof_seek,
          mrg, adr>>

(***************************************************************************)
(* Bounds of the exploration.                                              *)
(***************************************************************************)
\* insert_pair calls made on one Input map
MaxInputCalls == 2
\* raw pairs handed to one Global map, by consensus_decode or by insert_pair
MaxGlobalPairs == 3

(***************************************************************************)
(* Field type tags.                                                        *)
(***************************************************************************)
PSBT_GLOBAL_UNSIGNED_TX == 0
PSBT_GLOBAL_XPUB == 1
PSBT_GLOBAL_VERSION == 251
PSBT_GLOBAL_PROPRIETARY == 252

PSBT_IN_NON_WITNESS_UTXO == 0
PSBT_IN_WITNESS_UTXO == 1
PSBT_IN_PARTIAL_SIG == 2
PSBT_IN_SIGHASH_TYPE == 3
PSBT_IN_REDEEM_SCRIPT == 4
PSBT_IN_WITNESS_SCRIPT == 5
PSBT_IN_BIP32_DERIVATION == 6
PSBT_IN_FINAL_SCRIPTSIG == 7
PSBT_IN_FINAL_SCRIPTWITNESS == 8
PSBT_IN_PROPRIETARY == 252
PSBT_IN_RIPEMD160 == 10
PSBT_IN_SHA256 == 11
PSBT_IN_HASH160 == 12
PSBT_IN_HASH256 == 13

(***************************************************************************)
(* Options, maps, results, errors.                                         *)
(***************************************************************************)
None == <<>>
Some(v) == <<v>>
IsSome(o) == Len(o) = 1
IsNone(o) == Len(o) = 0
Unwrap(o) == o[1]

EmptyMap == [k \in {} |-> 0]
MapInsert(m, key, v) == [k \in (DOMAIN m) \cup {key} |-> IF k = key THEN v ELSE m[k]]

\* util/psbt/error.rs Error and consensus::encode::Error (Io, ParseFailed)
ErrorKinds == {"InvalidMagic", "InvalidSeparator", "InvalidKey", "InvalidProprietaryKey",
               "DuplicateKey", "UnsignedTxHasScriptSigs", "UnsignedTxHasScriptWitnesses",
               "MustHaveUnsignedTx", "NoMorePairs", "UnexpectedUnsignedTx",
               "NonStandardSigHashType", "HashParseError", "InvalidPreimageHashPair",
               "InvalidNonWitnessUtxo", "InvalidWitnessScript", "UnrecognizedWitnessProgram",
               "MustHaveSpendingUtxo", "ConsensusEncoding", "Io", "ParseFailed"}

Error(kind, data) == [kind |-> kind, data |-> data]
OkRes == [kind |-> "Ok", data |-> <<>>]
IsOk(r) == r.kind = "Ok"

\* result of a parser: the value and the unread rest of the bytes, or the error
POk(v, rest) == [ok |-> TRUE, val |-> v, rest |-> rest, err |-> OkRes]
PErr(e) == [ok |-> FALSE, val |-> <<>>, rest |-> <<>>, err |-> e]

Key(t, k) == [type_value |-> t, key |-> k]
Pair(t, k, v) == [key |-> Key(t, k), value |-> v]

(***************************************************************************)
(* Byte strings.                                                           *)
(***************************************************************************)
Rep(b, n) == [i \in 1..n |-> b]
Drop(s, n) == SubSeq(s, n + 1, Len(s))
Take(s, n) == SubSeq(s, 1, n)

RECURSIVE Sum(_)
Sum(s) == IF s = <<>> THEN 0 ELSE s[1] + Sum(Tail(s))

\* lexicographic order of two sequences of naturals (the Ord of Vec<u8>)
RECURSIVE SeqLess(_, _)
SeqLess(a, b) ==
    IF b = <<>> THEN FALSE
    ELSE IF a = <<>> THEN TRUE
    ELSE IF a[1] # b[1] THEN a[1] < b[1]
    ELSE SeqLess(Tail(a), Tail(b))

\* R is a set of <<rank, element>> with distinct byte-string ranks: the elements
\* ascending by rank (the iteration order of a BTreeMap)
Least(R) == CHOOSE x \in R : \A y \in R \ {x} : SeqLess(x[1], y[1])

RECURSIVE SortRanked(_)
SortFrom(m, R) == <<m[2]>> \o SortRanked(R \ {m})
SortRanked(R) == IF R = {} THEN <<>> ELSE SortFrom(Least(R), R)

LE32(n) == <<n % 256, (n \div 256) % 256, (n \div 65536) % 256, (n \div 16777216) % 256>>
FromLE32(s) == s[1] + 256 * s[2] + 65536 * s[3] + 16777216 * s[4]

(***************************************************************************)
(* consensus::encode: the primitive readers and writers.  A reader takes   *)
(* the unread bytes and returns the value and the rest.  Then(r, F) is the *)
(* `?` of the source: the error of r, or F applied to what r read.         *)
(***************************************************************************)
EofErr == Error("Io", "UnexpectedEof")
NotConsumedErr == Error("ParseFailed", "data not consumed entirely when explicitly deserializing")

\* r is read once, whatever F does with it
Then(r, F(_)) == CHOOSE y \in {IF x.ok THEN F(x) ELSE x : x \in {r}} : TRUE

RECURSIVE FromLE(_)
FromLE(s) == IF s = <<>> THEN 0 ELSE s[1] + 256 * FromLE(Tail(s))

ReadN(s, n) == IF Len(s) < n THEN PErr(EofErr) ELSE POk(Take(s, n), Drop(s, n))

ReadU8(s) == IF s = <<>> THEN PErr(EofErr) ELSE POk(s[1], Tail(s))

ReadU32(s) == Then(ReadN(s, 4), LAMBDA r : POk(FromLE32(r.val), r.rest))

\* the 2, 4 or 8 bytes after a first byte of 0xFD, 0xFE or 0xFF: they must not
\* fit the shorter form.  Every VarInt read here is a length, and a length of
\* 2^31 or more is refused (OversizedVectorAllocation)
VarIntWide(w, r) ==
    IF w = 2
    THEN IF FromLE(r.val) < 253 THEN PErr(Error("ParseFailed", "NonMinimalVarInt"))
         ELSE POk(FromLE(r.val), r.rest)
    ELSE IF w = 4
    THEN IF r.val[3] = 0 /\ r.val[4] = 0 THEN PErr(Error("ParseFailed", "NonMinimalVarInt"))
         ELSE IF r.val[4] < 128 THEN POk(FromLE(r.val), r.rest)
         ELSE PErr(Error("ParseFailed", "OversizedVectorAllocation"))
    ELSE IF Drop(r.val, 4) = Rep(0, 4) THEN PErr(Error("ParseFailed", "NonMinimalVarInt"))
         ELSE PErr(Error("ParseFailed", "OversizedVectorAllocation"))

VarIntWidth(first) == IF first = 253 THEN 2 ELSE IF first = 254 THEN 4 ELSE 8

\* VarInt::consensus_decode
ReadVarInt(s) ==
    IF s = <<>> THEN PErr(EofErr)
    ELSE IF s[1] < 253 THEN POk(s[1], Tail(s))
    ELSE Then(ReadN(Tail(s), VarIntWidth(s[1])), LAMBDA r : VarIntWide(VarIntWidth(s[1]), r))

WriteVarInt(n) == IF n < 253 THEN <<n>> ELSE <<253, n % 256, (n \div 256) % 256>>

\* Vec<u8>
ReadBytes(s) == Then(ReadVarInt(s), LAMBDA n : ReadN(n.rest, n.val))

WriteBytes(b) == WriteVarInt(Len(b)) \o b

RECURSIVE Flatten(_)
Flatten(ss) == IF ss = <<>> THEN <<>> ELSE ss[1] \o Flatten(Tail(ss))

\* Vec<Vec<u8>>
RECURSIVE ReadByteVecs(_, _, _)
ReadByteVecs(s, n, acc) ==
    IF n = 0 THEN POk(acc, s)
    ELSE Then(ReadBytes(s), LAMBDA r : ReadByteVecs(r.rest, n - 1, Append(acc, r.val)))

ReadWitness(s) == Then(ReadVarInt(s), LAMBDA n : ReadByteVecs(n.rest, n.val, <<>>))

WriteWitness(w) == WriteVarInt(Len(w)) \o Flatten([i \in 1..Len(w) |-> WriteBytes(w[i])])

\* encode::deserialize: the whole slice must be consumed
Exactly(r) == IF r.ok /\ r.rest # <<>> THEN PErr(NotConsumedErr) ELSE r

(***************************************************************************)
(* blockdata::transaction: TxIn, TxOut, Transaction.                       *)
(***************************************************************************)
OutPointLen == 36
AmountLen == 8

TxIn(prev, sig, seqno, wit) ==
    [previous_output |-> prev, script_sig |-> sig, sequence |-> seqno, witness |-> wit]
TxOut(value, script) == [value |-> value, script_pubkey |-> script]
Transaction(ver, ins, outs, lock) ==
    [version |-> ver, input |-> ins, output |-> outs, lock_time |-> lock]

\* TxIn::consensus_decode: outpoint, script_sig, sequence; the witness is not
\* part of it and is left empty
ReadTxIn(s) ==
    Then(ReadN(s, OutPointLen), LAMBDA a :
    Then(ReadBytes(a.rest), LAMBDA b :
    Then(ReadU32(b.rest), LAMBDA c :
    POk(TxIn(a.val, b.val, c.val, <<>>), c.rest))))

WriteTxIn(i) == i.previous_output \o WriteBytes(i.script_sig) \o LE32(i.sequence)

ReadTxOut(s) ==
    Then(ReadN(s, AmountLen), LAMBDA a :
    Then(ReadBytes(a.rest), LAMBDA b :
    POk(TxOut(a.val, b.val), b.rest)))

WriteTxOut(o) == o.value \o WriteBytes(o.script_pubkey)

RECURSIVE ReadTxInsN(_, _, _)
ReadTxInsN(s, n, acc) ==
    IF n = 0 THEN POk(acc, s)
    ELSE Then(ReadTxIn(s), LAMBDA r : ReadTxInsN(r.rest, n - 1, Append(acc, r.val)))

ReadTxIns(s) == Then(ReadVarInt(s), LAMBDA n : ReadTxInsN(n.rest, n.val, <<>>))

WriteTxIns(ins) == WriteVarInt(Len(ins)) \o Flatten([i \in 1..Len(ins) |-> WriteTxIn(ins[i])])

RECURSIVE ReadTxOutsN(_, _, _)
ReadTxOutsN(s, n, acc) ==
    IF n = 0 THEN POk(acc, s)
    ELSE Then(ReadTxOut(s), LAMBDA r : ReadTxOutsN(r.rest, n - 1, Append(acc, r.val)))

ReadTxOuts(s) == Then(ReadVarInt(s), LAMBDA n : ReadTxOutsN(n.rest, n.val, <<>>))

WriteTxOuts(outs) ==
    WriteVarInt(Len(outs)) \o Flatten([i \in 1..Len(outs) |-> WriteTxOut(outs[i])])

\* the witnesses of a BIP141 transaction, one stack per input, in input order
RECURSIVE ReadWitnesses(_, _, _)
ReadWitnesses(s, ins, acc) ==
    IF ins = <<>> THEN POk(acc, s)
    ELSE Then(ReadWitness(s), LAMBDA r :
         ReadWitnesses(r.rest, Tail(ins), Append(acc, [ins[1] EXCEPT !.witness = r.val])))

NoWitness(ins) == \A k \in 1..Len(ins) : ins[k].witness = <<>>

\* the rest of a transaction in the old form, after version and inputs
ReadLegacyRest(v, i) ==
    Then(ReadTxOuts(i.rest), LAMBDA o :
    Then(ReadU32(o.rest), LAMBDA l :
    POk(Transaction(v.val, i.val, o.val, l.val), l.rest)))

\* the rest of a transaction in the BIP141 form, after version and the empty
\* input vector
ReadSegwitRest(v, i) ==
    Then(ReadU8(i.rest), LAMBDA f :
    IF f.val # 1 THEN PErr(Error("ParseFailed", "UnsupportedSegwitFlag"))
    ELSE Then(ReadTxIns(f.rest), LAMBDA j :
         Then(ReadTxOuts(j.rest), LAMBDA o :
         Then(ReadWitnesses(o.rest, j.val, <<>>), LAMBDA w :
         IF w.val # <<>> /\ NoWitness(w.val)
         THEN PErr(Error("ParseFailed", "witness flag set but no witnesses present"))
         ELSE Then(ReadU32(w.rest), LAMBDA l :
              POk(Transaction(v.val, w.val, o.val, l.val), l.rest))))))

\* Transaction::consensus_decode: an empty input vector announces the BIP141
\* form (flag, inputs, outputs, witnesses)
ReadTransaction(s) ==
    Then(ReadU32(s), LAMBDA v :
    Then(ReadTxIns(v.rest), LAMBDA i :
    IF i.val # <<>> THEN ReadLegacyRest(v, i) ELSE ReadSegwitRest(v, i)))

\* Transaction::consensus_encode: the BIP141 form when there is no input or
\* some input has a witness
WriteTransaction(tx) ==
    IF tx.input # <<>> /\ NoWitness(tx.input)
    THEN LE32(tx.version) \o WriteTxIns(tx.input) \o WriteTxOuts(tx.output)
         \o LE32(tx.lock_time)
    ELSE LE32(tx.version) \o <<0, 1>> \o WriteTxIns(tx.input) \o WriteTxOuts(tx.output)
         \o Flatten([k \in 1..Len(tx.input) |-> WriteWitness(tx.input[k].witness)])
         \o LE32(tx.lock_time)

(***************************************************************************)
(* util::psbt::serialize: Deserialize and Serialize of the field types.    *)
(* A deserializer returns a parser result with an empty rest.              *)
(***************************************************************************)
DeserializeTransaction(bytes) == Exactly(ReadTransaction(bytes))
SerializeTransaction(tx) == WriteTransaction(tx)

DeserializeTxOut(bytes) == Exactly(ReadTxOut(bytes))
SerializeTxOut(o) == WriteTxOut(o)

\* Script and Vec<u8> wrap the bytes as they are
DeserializeScript(bytes) == POk(bytes, <<>>)
SerializeScript(script) == script

DeserializeBytes(bytes) == POk(bytes, <<>>)
SerializeBytes(v) == v

DeserializeWitness(bytes) == Exactly(ReadWitness(bytes))
SerializeWitness(w) == WriteWitness(w)

DeserializeU32(bytes) == Exactly(ReadU32(bytes))
SerializeU32(n) == LE32(n)

\* util::key::PublicKey::from_slice: 33 bytes tagged 2 or 3 make a compressed
\* key, 65 bytes tagged 4, 6 or 7 (hybrid) an uncompressed one; whether the
\* coordinates are on the curve is not modelled
CompressedLen == 33
UncompressedLen == 65

DeserializePublicKey(bytes) ==
    IF Len(bytes) = CompressedLen /\ bytes[1] \in {2, 3}
    THEN POk([compressed |-> TRUE, point |-> bytes], <<>>)
    ELSE IF Len(bytes) = UncompressedLen /\ bytes[1] \in {4, 6, 7}
    THEN POk([compressed |-> FALSE, point |-> Tail(bytes)], <<>>)
    ELSE PErr(Error("ParseFailed", "invalid public key"))

SerializePublicKey(pk) == IF pk.compressed THEN pk.point ELSE <<4>> \o pk.point

PublicKeyRank(pk) == <<IF pk.compressed THEN 1 ELSE 0>> \o pk.point

\* SigHashType::from_u32 keeps the bits 0x1f and 0x80 and maps what is left to
\* an enumerant; as_u32 gives the enumerant's number
SigHashMatch(masked) ==
    IF masked \in {1, 2, 3, 129, 130, 131} THEN masked
    ELSE IF masked >= 128 THEN 129
    ELSE 1

SigHashFromU32(n) == SigHashMatch((n % 32) + 128 * ((n \div 128) % 2))

DeserializeSigHashType(bytes) ==
    Then(DeserializeU32(bytes), LAMBDA raw :
    IF SigHashFromU32(raw.val) = raw.val THEN POk(raw.val, <<>>)
    ELSE PErr(Error("NonStandardSigHashType", raw.val)))

SerializeSigHashType(sht) == LE32(sht)

\* KeySource = (Fingerprint, DerivationPath): four bytes, then child numbers
FingerprintLen == 4

RECURSIVE ReadPath(_, _)
ReadPath(s, acc) ==
    IF s = <<>> THEN POk(acc, <<>>)
    ELSE IF Len(s) < 4 THEN PErr(Error("ParseFailed", "Not enough bytes for a derivation path"))
    ELSE Then(ReadU32(s), LAMBDA r : ReadPath(r.rest, Append(acc, r.val)))

DeserializeKeySource(bytes) ==
    IF Len(bytes) < FingerprintLen THEN PErr(EofErr)
    ELSE Then(ReadPath(Drop(bytes, FingerprintLen), <<>>), LAMBDA p :
         POk([fingerprint |-> Take(bytes, FingerprintLen), path |-> p.val], <<>>))

SerializeKeySource(ks) ==
    ks.fingerprint \o Flatten([i \in 1..Len(ks.path) |-> LE32(ks.path[i])])

\* util::bip32::ExtendedPubKey::decode: 78 bytes opening with a known version;
\* the key keeps its bytes
XpubLen == 78
XpubVersions == {<<4, 136, 178, 30>>, <<4, 53, 135, 207>>}

DeserializeXpub(bytes) ==
    IF Len(bytes) # XpubLen THEN PErr(Error("ParseFailed", "WrongExtendedKeyLength"))
    ELSE IF Take(bytes, 4) \notin XpubVersions
    THEN PErr(Error("ParseFailed", "UnknownVersion"))
    ELSE POk(bytes, <<>>)

SerializeXpub(xpub) == xpub

\* The four hash functions, as stand-ins of the right digest lengths: the
\* digest depends on every byte of the message and on the function
Hash20Len == 20
Hash32Len == 32

Digest(salt, msg, n) == [i \in 1..n |-> (salt + i * (Sum(msg) + Len(msg) + 1)) % 256]

Ripemd160(msg) == Digest(160, msg, Hash20Len)
Sha256(msg) == Digest(2, msg, Hash32Len)
Hash160(msg) == Ripemd160(Sha256(msg))
Sha256d(msg) == Sha256(Sha256(msg))

\* Hash::from_slice
DeserializeHash20(bytes) ==
    IF Len(bytes) = Hash20Len THEN POk(bytes, <<>>)
    ELSE PErr(Error("HashParseError", "InvalidLength"))

DeserializeHash32(bytes) ==
    IF Len(bytes) = Hash32Len THEN POk(bytes, <<>>)
    ELSE PErr(Error("HashParseError", "InvalidLength"))

SerializeHash(h) == h

\* raw::ProprietaryKey: prefix (length-prefixed), subtype byte, the rest
ProprietaryFromKey(key) ==
    IF key.type_value # 252 THEN PErr(Error("InvalidProprietaryKey", <<>>))
    ELSE Then(ReadBytes(key.key), LAMBDA p :
         Then(ReadU8(p.rest), LAMBDA t :
         POk([prefix |-> p.val, subtype |-> t.val, key |-> t.rest], <<>>)))

ProprietaryToKey(pk) == Key(252, WriteBytes(pk.prefix) \o <<pk.subtype>> \o pk.key)

ProprietaryRank(pk) == [i \in 1..Len(pk.prefix) |-> pk.prefix[i] + 1] \o <<0, pk.subtype>> \o pk.key

RawKeyRank(key) == <<key.type_value>> \o key.key

(***************************************************************************)
(* util/psbt/macros.rs: the bodies the map implementations expand.  Each   *)
(* returns the slot (or map) as the expansion leaves it and the result.    *)
(***************************************************************************)
Slot(val, res) == [val |-> val, res |-> res]

\* Deserialize::deserialize and Serialize::serialize of the type T a macro
\* was given, <sha256d::Hash as Hash>::hash, and the order of a BTreeMap's keys
Deserialize(T, bytes) ==
    CASE T = "Transaction" -> DeserializeTransaction(bytes)
      [] T = "TxOut" -> DeserializeTxOut(bytes)
      [] T = "Script" -> DeserializeScript(bytes)
      [] T = "Vec<u8>" -> DeserializeBytes(bytes)
      [] T = "Vec<Vec<u8>>" -> DeserializeWitness(bytes)
      [] T = "u32" -> DeserializeU32(bytes)
      [] T = "PublicKey" -> DeserializePublicKey(bytes)
      [] T = "SigHashType" -> DeserializeSigHashType(bytes)
      [] T = "KeySource" -> DeserializeKeySource(bytes)
      [] T = "ExtendedPubKey" -> DeserializeXpub(bytes)
      [] T \in {"ripemd160::Hash", "hash160::Hash"} -> DeserializeHash20(bytes)
      [] T \in {"sha256::Hash", "sha256d::Hash"} -> DeserializeHash32(bytes)

Serialize(T, v) ==
    CASE T = "Transaction" -> SerializeTransaction(v)
      [] T = "TxOut" -> SerializeTxOut(v)
      [] T = "Script" -> SerializeScript(v)
      [] T = "Vec<u8>" -> SerializeBytes(v)
      [] T = "Vec<Vec<u8>>" -> SerializeWitness(v)
      [] T = "u32" -> SerializeU32(v)
      [] T = "PublicKey" -> SerializePublicKey(v)
      [] T = "SigHashType" -> SerializeSigHashType(v)
      [] T = "KeySource" -> SerializeKeySource(v)
      [] T = "ExtendedPubKey" -> SerializeXpub(v)
      [] T \in {"ripemd160::Hash", "hash160::Hash", "sha256::Hash", "sha256d::Hash"} ->
           SerializeHash(v)

HashOf(T, v) ==
    CASE T = "ripemd160::Hash" -> Ripemd160(v)
      [] T = "sha256::Hash" -> Sha256(v)
      [] T = "hash160::Hash" -> Hash160(v)
      [] T = "sha256d::Hash" -> Sha256d(v)

KeyRank(T, k) == IF T = "PublicKey" THEN PublicKeyRank(k) ELSE Serialize(T, k)

\* impl_psbt_insert_pair!(slf.name <= <raw_key: _>|<raw_value: T>)
SetSlot(slot, val) == IF val.ok THEN Slot(Some(val.val), OkRes) ELSE Slot(slot, val.err)

InsertUnkeyed(slot, raw_key, raw_value, T) ==
    IF raw_key.key # <<>> THEN Slot(slot, Error("InvalidKey", raw_key))
    ELSE IF IsSome(slot) THEN Slot(slot, Error("DuplicateKey", raw_key))
    ELSE SetSlot(slot, Deserialize(T, raw_value))

\* impl_psbt_insert_pair!(slf.name <= <raw_key: K>|<raw_value: V>)
SetEntry(map, key, val) ==
    IF val.ok THEN Slot(MapInsert(map, key, val.val), OkRes) ELSE Slot(map, val.err)

InsertEntry(map, raw_key, raw_value, key_val, V) ==
    IF ~key_val.ok THEN Slot(map, key_val.err)
    ELSE IF key_val.val \in DOMAIN map THEN Slot(map, Error("DuplicateKey", raw_key))
    ELSE SetEntry(map, key_val.val, Deserialize(V, raw_value))

InsertKeyed(map, raw_key, raw_value, K, V) ==
    IF raw_key.key = <<>> THEN Slot(map, Error("InvalidKey", raw_key))
    ELSE InsertEntry(map, raw_key, raw_value, Deserialize(K, raw_key.key), V)

\* the Vacant branch without the comparison of the hash of the value with the key
SetPreimageUnchecked(map, key, val, H) ==
    IF ~val.ok THEN Slot(map, val.err)
    ELSE Slot(MapInsert(map, key, val.val), OkRes)

\* impl_psbt_insert_hash_pair!(slf.name <= <raw_key: H>|<raw_value: Vec<u8>>; Name)
SetPreimage(map, key, val, H) ==
    IF ~val.ok THEN Slot(map, val.err)
    ELSE IF HashOf(H, val.val) # key
    THEN Slot(map, Error("InvalidPreimageHashPair", [preimage |-> val.val, hash |-> key]))
    ELSE Slot(MapInsert(map, key, val.val), OkRes)

InsertPreimage(map, raw_key, raw_value, key_val, H) ==
    IF ~key_val.ok THEN Slot(map, key_val.err)
    ELSE IF key_val.val \in DOMAIN map THEN Slot(map, Error("DuplicateKey", raw_key))
    ELSE SetPreimage(map, key_val.val, Deserialize("Vec<u8>", raw_value), H)

InsertHashPair(map, raw_key, raw_value, H) ==
    IF raw_key.key = <<>> THEN Slot(map, Error("InvalidKey", raw_key))
    ELSE InsertPreimage(map, raw_key, raw_value, Deserialize(H, raw_key.key), H)

\* impl_psbt_get_pair!(rv.push(slf.name as <tag, _>|<T>)); T is the type of
\* the field, which is what Serialize::serialize dispatches on
GetUnkeyed(slot, tag, T) ==
    IF IsSome(slot) THEN <<Pair(tag, <<>>, Serialize(T, Unwrap(slot)))>> ELSE <<>>

\* impl_psbt_get_pair!(rv.push(slf.name as <tag, K>|<V>)): the entries in key order
PairsOf(keys, map, tag, K, V) ==
    [i \in 1..Len(keys) |-> Pair(tag, Serialize(K, keys[i]), Serialize(V, map[keys[i]]))]

\* the entries written in the order of their serialized keys, not in the
\* order of the map
GetKeyedBySerialized(map, tag, K, V) ==
    PairsOf(SortRanked({<<Serialize(K, k), k>> : k \in DOMAIN map}), map, tag, K, V)

GetKeyed(map, tag, K, V) ==
    PairsOf(SortRanked({<<KeyRank(K, k), k>> : k \in DOMAIN map}), map, tag, K, V)

\* merge!(name, self, other): other's value is taken when self has none
MergeOption(slf, other) == IF IsSome(slf) THEN slf ELSE other

\* the union of two maps in which an entry of other replaces self's
MergeMapsOtherWins(slf, other) ==
    [k \in (DOMAIN slf) \cup (DOMAIN other) |-> IF k \in DOMAIN other THEN other[k] ELSE slf[k]]

\* the union of two maps; on a key both hold, self's entry stays
MergeMaps(slf, other) ==
    [k \in (DOMAIN slf) \cup (DOMAIN other) |-> IF k \in DOMAIN slf THEN slf[k] ELSE other[k]]

(***************************************************************************)
(* util/psbt/map/input.rs                                                  *)
(***************************************************************************)
InputDefault ==
    [non_witness_utxo |-> None, witness_utxo |-> None, partial_sigs |-> EmptyMap,
     sighash_type |-> None, redeem_script |-> None, witness_script |-> None,
     bip32_derivation |-> EmptyMap, final_script_sig |-> None,
     final_script_witness |-> None, ripemd_preimages |-> EmptyMap,
     sha256_preimages |-> EmptyMap, hash160_preimages |-> EmptyMap,
     hash256_preimages |-> EmptyMap, proprietary |-> EmptyMap, unknown |-> EmptyMap]

Ret(map, res) == [map |-> map, res |-> res]

\* the proprietary arm of insert_pair, the same in both maps
ProprietaryEntry(map, raw_key, raw_value, pk) ==
    IF ~pk.ok THEN Slot(map, pk.err)
    ELSE IF pk.val \in DOMAIN map THEN Slot(map, Error("DuplicateKey", raw_key))
    ELSE Slot(MapInsert(map, pk.val, raw_value), OkRes)

\* the proprietary arm that writes the value before it looks at the entry
ProprietaryEntryEager(map, raw_key, raw_value, pk) ==
    IF ~pk.ok THEN Slot(map, pk.err)
    ELSE IF pk.val \in DOMAIN map
         THEN Slot(MapInsert(map, pk.val, raw_value), Error("DuplicateKey", raw_key))
    ELSE Slot(MapInsert(map, pk.val, raw_value), OkRes)

InsertProprietaryEager(map, raw_key, raw_value) ==
    ProprietaryEntryEager(map, raw_key, raw_value, ProprietaryFromKey(raw_key))

InsertProprietary(map, raw_key, raw_value) ==
    ProprietaryEntry(map, raw_key, raw_value, ProprietaryFromKey(raw_key))

\* the unknown arm without the look at the entry: insert, whatever was there
InsertUnknownOverwrite(map, raw_key, raw_value) ==
    Slot(MapInsert(map, raw_key, raw_value), OkRes)

\* the unknown arm of insert_pair, the same in both maps
InsertUnknown(map, raw_key, raw_value) ==
    IF raw_key \in DOMAIN map THEN Slot(map, Error("DuplicateKey", raw_key))
    ELSE Slot(MapInsert(map, raw_key, raw_value), OkRes)

\* the map with field f as an arm left it, and the arm's result
Put(self, f, r) == Ret([self EXCEPT ![f] = r.val], r.res)

\* the arms of the match in Input::insert_pair, one per field type
InNonWitnessUtxo(self, raw_key, raw_value) ==
    Put(self, "non_witness_utxo",
        InsertUnkeyed(self.non_witness_utxo, raw_key, raw_value, "Transaction"))

InWitnessUtxo(self, raw_key, raw_value) ==
    Put(self, "witness_utxo",
        InsertUnkeyed(self.witness_utxo, raw_key, raw_value, "TxOut"))

InPartialSig(self, raw_key, raw_value) ==
    Put(self, "partial_sigs",
        InsertKeyed(self.partial_sigs, raw_key, raw_value, "PublicKey", "Vec<u8>"))

\* the sighash-type arm with the slot and the type of the redeem-script arm
InSighashTypeAsRedeemScript(self, raw_key, raw_value) ==
    Put(self, "redeem_script",
        InsertUnkeyed(self.redeem_script, raw_key, raw_value, "Script"))

InSighashType(self, raw_key, raw_value) ==
    Put(self, "sighash_type",
        InsertUnkeyed(self.sighash_type, raw_key, raw_value, "SigHashType"))

InRedeemScript(self, raw_key, raw_value) ==
    Put(self, "redeem_script",
        InsertUnkeyed(self.redeem_script, raw_key, raw_value, "Script"))

InWitnessScript(self, raw_key, raw_value) ==
    Put(self, "witness_script",
        InsertUnkeyed(self.witness_script, raw_key, raw_value, "Script"))

InBip32Derivation(self, raw_key, raw_value) ==
    Put(self, "bip32_derivation",
        InsertKeyed(self.bip32_derivation, raw_key, raw_value, "PublicKey", "KeySource"))

InFinalScriptSig(self, raw_key, raw_value) ==
    Put(self, "final_script_sig",
        InsertUnkeyed(self.final_script_sig, raw_key, raw_value, "Script"))

\* the final_script_witness arm left out: the pair goes the way of an unknown one
InFinalScriptWitnessAsUnknown(self, raw_key, raw_value) ==
    Put(self, "unknown", InsertUnknown(self.unknown, raw_key, raw_value))

InFinalScriptWitness(self, raw_key, raw_value) ==
    Put(self, "final_script_witness",
        InsertUnkeyed(self.final_script_witness, raw_key, raw_value, "Vec<Vec<u8>>"))

InProprietary(self, raw_key, raw_value) ==
    Put(self, "proprietary",
        InsertProprietary(self.proprietary, raw_key, raw_value))

\* the ripemd160 arm with the hash of the hash160 arm
InRipemdPreimageAsHash160(self, raw_key, raw_value) ==
    Put(self, "ripemd_preimages",
        InsertHashPair(self.ripemd_preimages, raw_key, raw_value, "hash160::Hash"))

InRipemdPreimage(self, raw_key, raw_value) ==
    Put(self, "ripemd_preimages",
        InsertHashPair(self.ripemd_preimages, raw_key, raw_value, "ripemd160::Hash"))

InSha256Preimage(self, raw_key, raw_value) ==
    Put(self, "sha256_preimages",
        InsertHashPair(self.sha256_preimages, raw_key, raw_value, "sha256::Hash"))

InHash160Preimage(self, raw_key, raw_value) ==
    Put(self, "hash160_preimages",
        InsertHashPair(self.hash160_preimages, raw_key, raw_value, "hash160::Hash"))

InHash256Preimage(self, raw_key, raw_value) ==
    Put(self, "hash256_preimages",
        InsertHashPair(self.hash256_preimages, raw_key, raw_value, "sha256d::Hash"))

InUnknown(self, raw_key, raw_value) ==
    Put(self, "unknown", InsertUnknown(self.unknown, raw_key, raw_value))

\* Input::insert_pair
InputInsertPair(self, pair) ==
    LET raw_key == pair.key
        raw_value == pair.value
        t == raw_key.type_value
    IN  CASE t = PSBT_IN_NON_WITNESS_UTXO -> InNonWitnessUtxo(self, raw_key, raw_value)
          [] t = PSBT_IN_WITNESS_UTXO -> InWitnessUtxo(self, raw_key, raw_value)
          [] t = PSBT_IN_PARTIAL_SIG -> InPartialSig(self, raw_key, raw_value)
          [] t = PSBT_IN_SIGHASH_TYPE -> InSighashType(self, raw_key, raw_value)
          [] t = PSBT_IN_REDEEM_SCRIPT -> InRedeemScript(self, raw_key, raw_value)
          [] t = PSBT_IN_WITNESS_SCRIPT -> InWitnessScript(self, raw_key, raw_value)
          [] t = PSBT_IN_BIP32_DERIVATION -> InBip32Derivation(self, raw_key, raw_value)
          [] t = PSBT_IN_FINAL_SCRIPTSIG -> InFinalScriptSig(self, raw_key, raw_value)
          [] t = PSBT_IN_FINAL_SCRIPTWITNESS -> InFinalScriptWitness(self, raw_key, raw_value)
          [] t = PSBT_IN_PROPRIETARY -> InProprietary(self, raw_key, raw_value)
          [] t = PSBT_IN_RIPEMD160 -> InRipemdPreimage(self, raw_key, raw_value)
          [] t = PSBT_IN_SHA256 -> InSha256Preimage(self, raw_key, raw_value)
          [] t = PSBT_IN_HASH160 -> InHash160Preimage(self, raw_key, raw_value)
          [] t = PSBT_IN_HASH256 -> InHash256Preimage(self, raw_key, raw_value)
          [] OTHER -> InUnknown(self, raw_key, raw_value)

\* the proprietary and the unknown entries as get_pairs pushes them
ProprietaryPairs(keys, map) ==
    [i \in 1..Len(keys) |-> [key |-> ProprietaryToKey(keys[i]), value |-> map[keys[i]]]]

GetProprietary(map) ==
    ProprietaryPairs(SortRanked({<<ProprietaryRank(k), k>> : k \in DOMAIN map}), map)

\* the unknown entries written under their type byte alone
UnknownPairsTypeOnly(keys, map) ==
    [i \in 1..Len(keys) |-> [key |-> Key(keys[i].type_value, <<>>), value |-> map[keys[i]]]]

UnknownPairs(keys, map) == [i \in 1..Len(keys) |-> [key |-> keys[i], value |-> map[keys[i]]]]

GetUnknown(map) == UnknownPairs(SortRanked({<<RawKeyRank(k), k>> : k \in DOMAIN map}), map)

\* get_pairs that pushes final_script_witness under the tag of final_script_sig
InputGetPairsFinalTag(self) ==
    GetUnkeyed(self.non_witness_utxo, PSBT_IN_NON_WITNESS_UTXO, "Transaction")
    \o GetUnkeyed(self.witness_utxo, PSBT_IN_WITNESS_UTXO, "TxOut")
    \o GetKeyed(self.partial_sigs, PSBT_IN_PARTIAL_SIG, "PublicKey", "Vec<u8>")
    \o GetUnkeyed(self.sighash_type, PSBT_IN_SIGHASH_TYPE, "SigHashType")
    \o GetUnkeyed(self.redeem_script, PSBT_IN_REDEEM_SCRIPT, "Script")
    \o GetUnkeyed(self.witness_script, PSBT_IN_WITNESS_SCRIPT, "Script")
    \o GetKeyed(self.bip32_derivation, PSBT_IN_BIP32_DERIVATION, "PublicKey", "KeySource")
    \o GetUnkeyed(self.final_script_sig, PSBT_IN_FINAL_SCRIPTSIG, "Script")
    \o GetUnkeyed(self.final_script_witness, PSBT_IN_FINAL_SCRIPTSIG, "Vec<Vec<u8>>")
    \o GetKeyed(self.ripemd_preimages, PSBT_IN_RIPEMD160, "ripemd160::Hash", "Vec<u8>")
    \o GetKeyed(self.sha256_preimages, PSBT_IN_SHA256, "sha256::Hash", "Vec<u8>")
    \o GetKeyed(self.hash160_preimages, PSBT_IN_HASH160, "hash160::Hash", "Vec<u8>")
    \o GetKeyed(self.hash256_preimages, PSBT_IN_HASH256, "sha256d::Hash", "Vec<u8>")
    \o GetProprietary(self.proprietary)
    \o GetUnknown(self.unknown)

\* Input::get_pairs; final_script_witness is written `as <.., _>|<Script>` there,
\* and serialized as what the field is, a Vec<Vec<u8>>
InputGetPairs(self) ==
    GetUnkeyed(self.non_witness_utxo, PSBT_IN_NON_WITNESS_UTXO, "Transaction")
    \o GetUnkeyed(self.witness_utxo, PSBT_IN_WITNESS_UTXO, "TxOut")
    \o GetKeyed(self.partial_sigs, PSBT_IN_PARTIAL_SIG, "PublicKey", "Vec<u8>")
    \o GetUnkeyed(self.sighash_type, PSBT_IN_SIGHASH_TYPE, "SigHashType")
    \o GetUnkeyed(self.redeem_script, PSBT_IN_REDEEM_SCRIPT, "Script")
    \o GetUnkeyed(self.witness_script, PSBT_IN_WITNESS_SCRIPT, "Script")
    \o GetKeyed(self.bip32_derivation, PSBT_IN_BIP32_DERIVATION, "PublicKey", "KeySource")
    \o GetUnkeyed(self.final_script_sig, PSBT_IN_FINAL_SCRIPTSIG, "Script")
    \o GetUnkeyed(self.final_script_witness, PSBT_IN_FINAL_SCRIPTWITNESS, "Vec<Vec<u8>>")
    \o GetKeyed(self.ripemd_preimages, PSBT_IN_RIPEMD160, "ripemd160::Hash", "Vec<u8>")
    \o GetKeyed(self.sha256_preimages, PSBT_IN_SHA256, "sha256::Hash", "Vec<u8>")
    \o GetKeyed(self.hash160_preimages, PSBT_IN_HASH160, "hash160::Hash", "Vec<u8>")
    \o GetKeyed(self.hash256_preimages, PSBT_IN_HASH256, "sha256d::Hash", "Vec<u8>")
    \o GetProprietary(self.proprietary)
    \o GetUnknown(self.unknown)

\* merge, the non-witness parent: taken from other when self has none
MergeNonWitnessUtxo(self, other) ==
    [self EXCEPT !.non_witness_utxo = MergeOption(@, other.non_witness_utxo)]

\* the witness descriptor adopted and the non-witness parent left in place
MergeWitnessUtxoKeepParent(self, other) ==
    IF IsNone(self.witness_utxo) /\ IsSome(other.witness_utxo)
    THEN [self EXCEPT !.witness_utxo = other.witness_utxo]
    ELSE self

\* merge, the witness descriptor: adopted when other has one and self has
\* none, and then the non-witness parent is cleared
MergeWitnessUtxo(self, other) ==
    IF IsNone(self.witness_utxo) /\ IsSome(other.witness_utxo)
    THEN [self EXCEPT !.witness_utxo = other.witness_utxo, !.non_witness_utxo = None]
    ELSE self

\* merge, the map fields: each is the union, self's entries kept
MergeInputMaps(self, other) ==
    [self EXCEPT !.partial_sigs = MergeMaps(@, other.partial_sigs),
                 !.bip32_derivation = MergeMaps(@, other.bip32_derivation),
                 !.ripemd_preimages = MergeMaps(@, other.ripemd_preimages),
                 !.sha256_preimages = MergeMaps(@, other.sha256_preimages),
                 !.hash160_preimages = MergeMaps(@, other.hash160_preimages),
                 !.hash256_preimages = MergeMaps(@, other.hash256_preimages),
                 !.proprietary = MergeMaps(@, other.proprietary),
                 !.unknown = MergeMaps(@, other.unknown)]

\* the scalar fields that stay as self has them, set or not
MergeInputScalarsKeepSelf(self, other) == self

\* merge, the scalar optional fields: other's value only where self has none
MergeInputScalars(self, other) ==
    [self EXCEPT !.sighash_type = MergeOption(@, other.sighash_type),
                 !.redeem_script = MergeOption(@, other.redeem_script),
                 !.witness_script = MergeOption(@, other.witness_script),
                 !.final_script_sig = MergeOption(@, other.final_script_sig),
                 !.final_script_witness = MergeOption(@, other.final_script_witness)]

\* Map::merge for Input: the fields in the order of the policy; it cannot fail
InputMerge(self, other) ==
    Ret(MergeInputScalars(
            MergeInputMaps(
                MergeWitnessUtxo(MergeNonWitnessUtxo(self, other), other), other), other),
        OkRes)

(***************************************************************************)
(* util/psbt/map/global.rs                                                 *)
(***************************************************************************)
\* the check that looks at the first input only
UnsignedCheckFirst(ins) ==
    IF ins = <<>> THEN "Ok"
    ELSE IF ins[1].script_sig # <<>> THEN "UnsignedTxHasScriptSigs"
    ELSE IF ins[1].witness # <<>> THEN "UnsignedTxHasScriptWitnesses"
    ELSE "Ok"

\* the first complaint of the loop over tx.input, or "Ok"
RECURSIVE UnsignedCheck(_)
UnsignedCheck(ins) ==
    IF ins = <<>> THEN "Ok"
    ELSE IF ins[1].script_sig # <<>> THEN "UnsignedTxHasScriptSigs"
    ELSE IF ins[1].witness # <<>> THEN "UnsignedTxHasScriptWitnesses"
    ELSE UnsignedCheck(Tail(ins))

\* Global::from_unsigned_tx
GlobalFromUnsignedTx(tx) ==
    IF UnsignedCheck(tx.input) # "Ok" THEN PErr(Error(UnsignedCheck(tx.input), <<>>))
    ELSE POk([unsigned_tx |-> tx, xpub |-> EmptyMap, version |-> 0,
              proprietary |-> EmptyMap, unknown |-> EmptyMap], <<>>)

\* the end of the version arm and of insert_pair: `version`, when the arm set
\* it, is written to the map
PutVersion(self, r) ==
    IF IsOk(r.res) /\ IsSome(r.val) THEN Ret([self EXCEPT !.version = Unwrap(r.val)], r.res)
    ELSE Ret(self, r.res)

\* Global::insert_pair with the tag 0x00 arm testing the key data as the arm
\* of consensus_decode does
GlobalInsertPairKeyTested(self, pair) ==
    LET raw_key == pair.key
        raw_value == pair.value
        t == raw_key.type_value
        version == None
    IN  CASE t = PSBT_GLOBAL_UNSIGNED_TX ->
               IF raw_key.key = <<>> THEN Ret(self, Error("DuplicateKey", raw_key))
               ELSE Ret(self, Error("InvalidKey", raw_key))
          [] t = PSBT_GLOBAL_XPUB ->
               Put(self, "xpub",
                   InsertKeyed(self.xpub, raw_key, raw_value,
                               "ExtendedPubKey", "KeySource"))
          [] t = PSBT_GLOBAL_VERSION ->
               PutVersion(self, InsertUnkeyed(version, raw_key, raw_value, "u32"))
          [] t = PSBT_GLOBAL_PROPRIETARY ->
               Put(self, "proprietary",
                   InsertProprietary(self.proprietary, raw_key, raw_value))
          [] OTHER ->
               Put(self, "unknown",
                   InsertUnknown(self.unknown, raw_key, raw_value))

\* Global::insert_pair; the version arm fills the local `version`, which is
\* None at the start of every call
GlobalInsertPair(self, pair) ==
    LET raw_key == pair.key
        raw_value == pair.value
        t == raw_key.type_value
        version == None
    IN  CASE t = PSBT_GLOBAL_UNSIGNED_TX -> Ret(self, Error("DuplicateKey", raw_key))
          [] t = PSBT_GLOBAL_XPUB ->
               Put(self, "xpub",
                   InsertKeyed(self.xpub, raw_key, raw_value,
                               "ExtendedPubKey", "KeySource"))
          [] t = PSBT_GLOBAL_VERSION ->
               PutVersion(self, InsertUnkeyed(version, raw_key, raw_value, "u32"))
          [] t = PSBT_GLOBAL_PROPRIETARY ->
               Put(self, "proprietary",
                   InsertProprietary(self.proprietary, raw_key, raw_value))
          [] OTHER ->
               Put(self, "unknown",
                   InsertUnknown(self.unknown, raw_key, raw_value))

\* the value of the unsigned transaction pair: version, inputs, outputs and
\* lock time one after the other, never the BIP141 form
WriteUnsignedTx(tx) ==
    LE32(tx.version) \o WriteTxIns(tx.input) \o WriteTxOuts(tx.output) \o LE32(tx.lock_time)

\* Global::get_pairs
GlobalGetPairs(self) ==
    <<Pair(PSBT_GLOBAL_UNSIGNED_TX, <<>>, WriteUnsignedTx(self.unsigned_tx))>>
    \o GetProprietary(self.proprietary)
    \o GetUnknown(self.unknown)

\* Map::merge for Global: a different unsigned transaction is refused with
\* UnexpectedUnsignedTx { expected, actual } and self stays as it was; else
\* xpub, proprietary and unknown become the unions
GlobalMerge(self, other) ==
    IF self.unsigned_tx # other.unsigned_tx
    THEN Ret(self, Error("UnexpectedUnsignedTx",
                         [expected |-> self.unsigned_tx, actual |-> other.unsigned_tx]))
    ELSE Ret([self EXCEPT !.xpub = MergeMaps(@, other.xpub),
                          !.proprietary = MergeMaps(@, other.proprietary),
                          !.unknown = MergeMaps(@, other.unknown)],
             OkRes)

\* the unsigned transaction pair's value, read field by field from a cursor
ReadUnsignedTx(value) ==
    Then(ReadU32(value), LAMBDA v :
    Then(ReadTxIns(v.rest), LAMBDA i :
    Then(ReadTxOuts(i.rest), LAMBDA o :
    Then(ReadU32(o.rest), LAMBDA l :
    IF l.rest # <<>> THEN PErr(NotConsumedErr)
    ELSE POk(Transaction(v.val, i.val, o.val, l.val), <<>>)))))

\* the path loop reading each child index most significant byte first
RECURSIVE XpubPathLoopBigEndian(_, _)
XpubPathLoopBigEndian(s, path) ==
    IF Len(s) < 4 THEN [path |-> path, left |-> s]
    ELSE XpubPathLoopBigEndian(Drop(s, 4),
                               Append(path, FromLE32(<<s[4], s[3], s[2], s[1]>>)))

\* the loop over u32::consensus_decode in the xpub arm: it pushes child numbers
\* until a read fails and leaves the bytes it could not read
RECURSIVE XpubPathLoop(_, _)
XpubPathLoop(s, path) ==
    IF Len(s) < 4 THEN [path |-> path, left |-> s]
    ELSE XpubPathLoop(Drop(s, 4), Append(path, FromLE32(Take(s, 4))))

\* the position of the cursor after the loop against the value's length.
\* eof_seek tells what the standard library's Cursor::read_exact does to the
\* position when it fails: leave it (FALSE) or move it to the end (TRUE)
XpubSource(vlen, f, p, eof_seek) ==
    IF (IF eof_seek THEN vlen ELSE vlen - Len(p.left)) # vlen THEN PErr(NotConsumedErr)
    ELSE POk([fingerprint |-> f.val, path |-> p.path], <<>>)

\* the xpub pair's value: fingerprint, then the derivation path
ReadXpubValue(value, eof_seek) ==
    Then(ReadN(value, FingerprintLen), LAMBDA f :
    XpubSource(Len(value), f, XpubPathLoop(f.rest, <<>>), eof_seek))

\* the locals of consensus_decode before the loop
DecodeLocals ==
    [tx |-> None, version |-> None, unknowns |-> EmptyMap, proprietary |-> EmptyMap,
     xpub_map |-> EmptyMap]

\* a local stored into fresh locals: what was read before it is forgotten
PutLocalFresh(d, f, parsed) ==
    IF parsed.ok
    THEN Ret([DecodeLocals EXCEPT ![f] = Some(parsed.val)], OkRes)
    ELSE Ret(d, parsed.err)

\* the locals with local f as parsed, or the parse error
PutLocal(d, f, parsed) ==
    IF parsed.ok THEN Ret([d EXCEPT ![f] = Some(parsed.val)], OkRes) ELSE Ret(d, parsed.err)

\* xpub_map.insert(xpub, source).is_some() ends the decoding
PutXpub(d, xpub, src) ==
    IF ~xpub.ok
    THEN Ret(d, Error("ParseFailed", "Can't deserialize ExtendedPublicKey from global XPUB key data"))
    ELSE IF ~src.ok THEN Ret(d, src.err)
    ELSE Ret([d EXCEPT !.xpub_map = MapInsert(d.xpub_map, xpub.val, src.val)],
             IF xpub.val \in DOMAIN d.xpub_map
             THEN Error("ParseFailed", "Repeated global xpub key")
             ELSE OkRes)

\* one turn of the loop of Global::consensus_decode on a pair that was read:
\* the locals after it and Ok, or the error the function returns
DecodePairArm(d, pair, eof_seek) ==
    LET t == pair.key.type_value
    IN  CASE t = PSBT_GLOBAL_UNSIGNED_TX ->
               IF pair.key.key # <<>> THEN Ret(d, Error("InvalidKey", pair.key))
               ELSE IF IsSome(d.tx) THEN Ret(d, Error("DuplicateKey", pair.key))
               ELSE PutLocal(d, "tx", ReadUnsignedTx(pair.value))
          [] t = PSBT_GLOBAL_VERSION ->
               IF pair.key.key # <<>> THEN Ret(d, Error("InvalidKey", pair.key))
               ELSE IF IsSome(d.version) THEN Ret(d, Error("DuplicateKey", pair.key))
               ELSE IF Len(pair.value) # 4
               THEN Ret(d, Error("ParseFailed", "Wrong global version value length (must be 4 bytes)"))
               ELSE PutLocal(d, "version", Exactly(ReadU32(pair.value)))
          [] t = PSBT_GLOBAL_XPUB ->
               IF pair.key.key = <<>>
               THEN Ret(d, Error("ParseFailed", "Xpub global key must contain serialized Xpub data"))
               ELSE PutXpub(d, DeserializeXpub(pair.key.key), ReadXpubValue(pair.value, eof_seek))
          [] t = PSBT_GLOBAL_PROPRIETARY ->
               Put(d, "proprietary", InsertProprietary(d.proprietary, pair.key, pair.value))
          [] OTHER ->
               Put(d, "unknowns", InsertUnknown(d.unknowns, pair.key, pair.value))

\* rv of consensus_decode: the map from_unsigned_tx made, with the locals
FillGlobal(rv, d) ==
    IF ~rv.ok THEN rv
    ELSE POk([rv.val EXCEPT !.version = IF IsSome(d.version) THEN Unwrap(d.version) ELSE 0,
                            !.xpub = d.xpub_map,
                            !.proprietary = d.proprietary,
                            !.unknown = d.unknowns], <<>>)

\* the end of the decoding that takes an empty transaction when none was read
DecodeFinishDefaultTx(d) ==
    IF IsSome(d.tx) THEN FillGlobal(GlobalFromUnsignedTx(Unwrap(d.tx)), d)
    ELSE FillGlobal(GlobalFromUnsignedTx(Transaction(0, <<>>, <<>>, 0)), d)

\* the end of Global::consensus_decode, after the loop was left on NoMorePairs
DecodeFinish(d) ==
    IF IsSome(d.tx) THEN FillGlobal(GlobalFromUnsignedTx(Unwrap(d.tx)), d)
    ELSE PErr(Error("MustHaveUnsignedTx", <<>>))

\* Global::consensus_decode on a whole stream of pairs closed by the end-of-map
\* marker
RECURSIVE DecodeLoop(_, _, _)
DecodeTurn(r, pairs, eof_seek) ==
    IF IsOk(r.res) THEN DecodeLoop(r.map, Tail(pairs), eof_seek) ELSE PErr(r.res)

DecodeLoop(d, pairs, eof_seek) ==
    IF pairs = <<>> THEN DecodeFinish(d)
    ELSE DecodeTurn(DecodePairArm(d, pairs[1], eof_seek), pairs, eof_seek)

GlobalDecode(pairs, eof_seek) == DecodeLoop(DecodeLocals, pairs, eof_seek)


(***************************************************************************)
(* The raw pairs the maps are driven with.                                 *)
(* Numbers stay below 2^31 (the model checker's integers are 32 bits).     *)
(***************************************************************************)
ZeroOutPoint == Rep(0, OutPointLen)
OneCoin == <<1>> \o Rep(0, AmountLen - 1)

\* unsigned inputs and signed ones
InClean == TxIn(ZeroOutPoint, <<>>, 1, <<>>)
InSigned == TxIn(ZeroOutPoint, <<81>>, 1, <<>>)
InWitness == TxIn(ZeroOutPoint, <<>>, 1, <<(<<1>>)>>)

OutA == TxOut(OneCoin, <<81>>)
OutB == TxOut(OneCoin, <<82, 83>>)

TxSigned == Transaction(2, <<InSigned>>, <<OutA>>, 0)
TxSegwit == Transaction(2, <<InClean, InWitness>>, <<OutA>>, 0)

PkCompressed == <<2>> \o Rep(1, CompressedLen - 1)
PkCompressed2 == <<3>> \o Rep(1, CompressedLen - 1)
PkUncompressed == <<4>> \o Rep(1, UncompressedLen - 1)
PkHybrid == <<6>> \o Rep(1, UncompressedLen - 1)

FingerprintA == <<222, 173, 190, 239>>

PreimageA == <<1, 2, 3>>
PreimageB == <<9>>

\* prefix "ab", subtype 7, subkey 1
PropKeyBytes == <<2, 97, 98, 7, 1>>

InputPairs ==
    { Pair(0, <<>>, SerializeTransaction(TxSigned)),
      Pair(0, <<>>, SerializeTransaction(TxSegwit)),
      Pair(0, <<>>, SerializeTransaction(TxSigned) \o <<0>>),
      Pair(0, <<1>>, SerializeTransaction(TxSigned)),
      Pair(1, <<>>, SerializeTxOut(OutA)),
      Pair(1, <<>>, SerializeTxOut(OutB)),
      Pair(2, PkCompressed, <<48, 1>>),
      Pair(2, PkCompressed, <<48, 2>>),
      Pair(2, PkCompressed2, <<48, 3>>),
      Pair(2, PkUncompressed, <<48, 4>>),
      Pair(2, PkHybrid, <<48, 5>>),
      Pair(2, <<2, 1>>, <<48, 1>>),
      Pair(3, <<>>, LE32(1)),
      Pair(3, <<>>, LE32(131)),
      Pair(3, <<>>, <<153, 0, 0, 0>>),
      Pair(3, <<>>, <<1, 0, 0>>),
      Pair(4, <<>>, <<81>>),
      Pair(4, <<>>, <<82>>),
      Pair(5, <<>>, <<81>>),
      Pair(6, PkCompressed, FingerprintA \o LE32(44) \o LE32(1)),
      Pair(6, PkCompressed, FingerprintA \o <<1>>),
      Pair(7, <<>>, <<81>>),
      Pair(8, <<>>, SerializeWitness(<<(<<1>>), <<>>>>)),
      Pair(8, <<>>, <<2, 1>>),
      Pair(10, Ripemd160(PreimageA), PreimageA),
      Pair(10, Ripemd160(PreimageA), PreimageB),
      Pair(10, Ripemd160(PreimageB), PreimageB),
      Pair(10, <<1, 2>>, PreimageA),
      Pair(11, Sha256(PreimageA), PreimageA),
      Pair(11, Sha256(PreimageA), PreimageB),
      Pair(12, Hash160(PreimageA), PreimageA),
      Pair(12, Hash160(PreimageA), PreimageB),
      Pair(13, Sha256d(PreimageA), PreimageA),
      Pair(13, Sha256d(PreimageA), PreimageB),
      Pair(252, PropKeyBytes, <<1>>),
      Pair(252, PropKeyBytes, <<2>>),
      Pair(252, <<5>>, <<1>>),
      Pair(9, <<>>, <<1>>),
      Pair(9, <<>>, <<2>>),
      Pair(66, <<7>>, <<1>>) }

\* transactions handed to Global::from_unsigned_tx
TxNoInput == Transaction(2, <<>>, <<OutA>>, 0)
TxOneInput == Transaction(2, <<InClean>>, <<OutA>>, 0)
TxTwoInputs == Transaction(2, <<InClean, InClean>>, <<OutA, OutB>>, 5)
TxSecondSigned == Transaction(2, <<InClean, InSigned>>, <<OutA>>, 0)
TxSecondWitness == Transaction(2, <<InClean, InWitness>>, <<OutA>>, 0)
TxWitnessThenSigned == Transaction(2, <<InWitness, InSigned>>, <<OutA>>, 0)

GlobalTxs == {TxNoInput, TxOneInput, TxTwoInputs, TxSecondSigned, TxSecondWitness,
              TxWitnessThenSigned}

XpubA == <<4, 136, 178, 30>> \o Rep(1, XpubLen - 4)
XpubB == <<4, 53, 135, 207>> \o Rep(2, XpubLen - 4)

GlobalPairs ==
    { Pair(0, <<>>, WriteUnsignedTx(TxOneInput)),
      Pair(0, <<>>, WriteUnsignedTx(TxNoInput)),
      Pair(0, <<>>, WriteUnsignedTx(TxSecondSigned)),
      Pair(0, <<>>, WriteUnsignedTx(TxOneInput) \o <<0>>),
      Pair(0, <<1>>, WriteUnsignedTx(TxOneInput)),
      Pair(1, XpubA, FingerprintA \o <<44, 0, 0, 0>> \o <<1, 2, 3, 4>>),
      Pair(1, XpubA, FingerprintA),
      Pair(1, XpubB, FingerprintA \o <<44, 0, 0, 0>> \o <<1, 2, 3>>),
      Pair(1, XpubA, <<1, 2>>),
      Pair(1, <<>>, FingerprintA),
      Pair(1, <<1, 2>>, FingerprintA),
      Pair(251, <<>>, LE32(1)),
      Pair(251, <<>>, LE32(2)),
      Pair(251, <<>>, <<1, 0, 0>>),
      Pair(251, <<>>, <<1, 0, 0, 0, 0>>),
      Pair(251, <<9>>, LE32(1)),
      Pair(252, PropKeyBytes, <<1>>),
      Pair(252, PropKeyBytes, <<2>>),
      Pair(252, <<5>>, <<1>>),
      Pair(2, <<>>, <<1>>),
      Pair(2, <<>>, <<2>>),
      Pair(66, <<7>>, <<1>>) }

NoPair == Pair(0, <<>>, <<>>)
NoRes == Error("None", <<>>)
NoCall == [op |-> "none", pair |-> NoPair, tx |-> None, res |-> NoRes]

\* no merge under way
MergeIdle == [pc |-> "idle", kind |-> "", self |-> <<>>, other |-> <<>>, res |-> NoRes]

\* no address call made
AddrIdle == [pc |-> "idle", op |-> "none", arg |-> <<>>, res |-> <<>>]

DecodeIdle ==
    [pc |-> "idle", locals |-> DecodeLocals, stream |-> <<>>, ended |-> "", res |-> NoRes]

(***************************************************************************)
(* The state machine.  A behaviour drives one map: an Input from           *)
(* Input::default() through insert_pair, or a Global made by               *)
(* from_unsigned_tx or by consensus_decode and then put through            *)
(* insert_pair.  The two maps share no state.                              *)
(*   in_keys, g_keys  the raw keys insert_pair has accepted so far         *)
(*   dec              consensus_decode: its place, its locals, the pairs   *)
(*                    it has read, what ended it (a pair's arm, a failed   *)
(*                    read, the end-of-map marker) and what it returned    *)
(*   std_eof_seek     what a failed Cursor::read_exact does (see           *)
(*                    ReadXpubValue), fixed when the decoder starts        *)
(*   mrg              merge: the map handed to it, self as it was before,  *)
(*                    and what it returned                                 *)
(*   adr              util::address: the call made, its argument and what  *)
(*                    it returned                                          *)
(***************************************************************************)
Init ==
    /\ input = InputDefault
    /\ in_last = NoCall
    /\ in_calls = 0
    /\ in_keys = {}
    /\ global = None
    /\ g_last = NoCall
    /\ g_calls = 0
    /\ g_keys = {}
    /\ dec = DecodeIdle
    /\ std_eof_seek = FALSE
    /\ mrg = MergeIdle
    /\ adr = AddrIdle

GlobalUntouched == dec.pc = "idle" /\ g_last.op = "none"

\* insert_pair returned r
InReturn(pair, r) ==
    /\ input' = r.map
    /\ in_last' = [op |-> "insert_pair", pair |-> pair, tx |-> None, res |-> r.res]
    /\ in_keys' = IF IsOk(r.res) THEN in_keys \cup {pair.key} ELSE in_keys

GReturn(pair, r) ==
    /\ global' = Some(r.map)
    /\ g_last' = [op |-> "insert_pair", pair |-> pair, tx |-> None, res |-> r.res]
    /\ g_keys' = IF IsOk(r.res) THEN g_keys \cup {pair.key} ELSE g_keys

\* from_unsigned_tx returned r
FromReturn(tx, r) ==
    /\ global' = IF r.ok THEN Some(r.val) ELSE None
    /\ g_last' = [op |-> "from_unsigned_tx", pair |-> NoPair, tx |-> Some(tx), res |-> r.err]

\* a turn of the decoder's loop ended with r
DecodeTurned(pair, r) ==
    dec' = IF IsOk(r.res)
           THEN [dec EXCEPT !.locals = r.map, !.stream = Append(@, pair)]
           ELSE [dec EXCEPT !.pc = "done", !.stream = Append(@, pair), !.ended = "pair",
                            !.res = r.res]

\* consensus_decode returned r
DecodeReturn(r) ==
    /\ dec' = [dec EXCEPT !.pc = "done", !.ended = "marker", !.res = r.err]
    /\ global' = IF r.ok THEN Some(r.val) ELSE None

\* one call input.insert_pair(pair)
InInsertPair(pair) ==
    /\ GlobalUntouched
    /\ in_calls < MaxInputCalls
    /\ InReturn(pair, InputInsertPair(input, pair))
    /\ in_calls' = in_calls + 1
    /\ UNCHANGED <<global, g_last, g_calls, g_keys, dec, std_eof_seek, mrg, adr>>

\* Global::from_unsigned_tx(tx)
FromUnsignedTx(tx) ==
    /\ GlobalUntouched
    /\ in_calls = 0
    /\ FromReturn(tx, GlobalFromUnsignedTx(tx))
    /\ UNCHANGED <<input, in_last, in_calls, in_keys, g_calls, g_keys, dec, std_eof_seek, mrg, adr>>

\* one call global.insert_pair(pair) on a map that exists
GInsertPair(pair) ==
    /\ IsSome(global)
    /\ g_calls < MaxGlobalPairs
    /\ GReturn(pair, GlobalInsertPair(Unwrap(global), pair))
    /\ g_calls' = g_calls + 1
    /\ UNCHANGED <<input, in_last, in_calls, in_keys, dec, std_eof_seek, mrg, adr>>

\* Global::consensus_decode is entered
DecodeStart ==
    /\ GlobalUntouched
    /\ in_calls = 0
    /\ dec' = [dec EXCEPT !.pc = "loop"]
    /\ std_eof_seek' \in BOOLEAN
    /\ UNCHANGED <<input, in_last, in_calls, in_keys, global, g_last, g_calls, g_keys, mrg, adr>>

\* raw::Pair::consensus_decode returned Ok(pair)
DecodePair(pair) ==
    /\ dec.pc = "loop"
    /\ g_calls < MaxGlobalPairs
    /\ DecodeTurned(pair, DecodePairArm(dec.locals, pair, std_eof_seek))
    /\ g_calls' = g_calls + 1
    /\ UNCHANGED <<input, in_last, in_calls, in_keys, global, g_last, g_keys, std_eof_seek, mrg, adr>>

\* raw::Pair::consensus_decode returned an error other than NoMorePairs
DecodeReadError ==
    /\ dec.pc = "loop"
    /\ dec' = [dec EXCEPT !.pc = "done", !.ended = "read", !.res = EofErr]
    /\ UNCHANGED <<input, in_last, in_calls, in_keys, global, g_last, g_calls, g_keys, std_eof_seek, mrg, adr>>

\* raw::Pair::consensus_decode returned NoMorePairs: the loop is left
DecodeEnd ==
    /\ dec.pc = "loop"
    /\ DecodeReturn(DecodeFinish(dec.locals))
    /\ UNCHANGED <<input, in_last, in_calls, in_keys, g_last, g_calls, g_keys, std_eof_seek, mrg, adr>>

Next ==
    \/ \E pair \in InputPairs : InInsertPair(pair)
    \/ \E tx \in GlobalTxs : FromUnsignedTx(tx)
    \/ \E pair \in GlobalPairs : GInsertPair(pair)
    \/ DecodeStart
    \/ \E pair \in GlobalPairs : DecodePair(pair)
    \/ DecodeReadError
    \/ DecodeEnd

Spec == Init /\ [][Next]_vars

(***************************************************************************)
(* Properties                                                              *)
(***************************************************************************)

\* a decoder or a fold of insert_pair gave back exactly the map m
DecodedIs(r, m) == r.ok /\ r.val = m

\* C1: a Global that from_unsigned_tx, insert_pair or consensus_decode built
\* comes back equal, xpub and version included, when the pairs get_pairs
\* emits for it are decoded again.
C1_GlobalRoundTrip ==
    IsSome(global) =>
        DecodedIs(GlobalDecode(GlobalGetPairs(Unwrap(global)), std_eof_seek), Unwrap(global))

\* what does come back: version and xpub are lost, the rest is kept
GlobalSansXpubVersion(g) == [g EXCEPT !.version = 0, !.xpub = EmptyMap]

C1_GlobalRoundTripSansXpubVersion ==
    IsSome(global) =>
        DecodedIs(GlobalDecode(GlobalGetPairs(Unwrap(global)), std_eof_seek),
                  GlobalSansXpubVersion(Unwrap(global)))

\* insert_pair folded over pairs, as a decoder feeds them to a fresh map
RECURSIVE InputInsertAll(_, _)
InputInsertNext(r, pairs) ==
    IF IsOk(r.res) THEN InputInsertAll(r.map, Drop(pairs, 1)) ELSE r

InputInsertAll(self, pairs) ==
    IF pairs = <<>> THEN Ret(self, OkRes)
    ELSE InputInsertNext(InputInsertPair(self, pairs[1]), pairs)

InsertedIs(r, m) == IsOk(r.res) /\ r.map = m

\* C2: an Input that successful insert_pair calls built comes back equal
\* when the pairs get_pairs emits for it are inserted, in that order, into
\* a default Input; none of those inserts fails.
C2_InputRoundTrip ==
    InsertedIs(InputInsertAll(InputDefault, InputGetPairs(input)), input)

C2_Witness ==
    /\ DOMAIN input.hash160_preimages # {}
    /\ DOMAIN input.bip32_derivation # {}

\* the last pair the decoder read repeats the raw key of an earlier one
RepeatsKey(stream) ==
    \E i \in 1..(Len(stream) - 1) : stream[i].key = stream[Len(stream)].key

\* a pair the decoder accepts when it is the first of the stream
DecodesAlone(pair) == IsOk(DecodePairArm(DecodeLocals, pair, std_eof_seek).res)

\* C3: Global::consensus_decode of a stream in which a pair repeats an
\* earlier key (the unsigned tx, the version, an xpub, a proprietary or an
\* unknown key), each pair well formed on its own, fails with DuplicateKey.
C3_DecodeDuplicateKey ==
    (/\ dec.ended = "pair"
     /\ RepeatsKey(dec.stream)
     /\ \A i \in 1..Len(dec.stream) : DecodesAlone(dec.stream[i]))
        => dec.res.kind = "DuplicateKey"

\* the same with the xpub pairs left aside, and what a repeated xpub gives
C3_DecodeDuplicateKeySansXpub ==
    (/\ dec.ended = "pair"
     /\ RepeatsKey(dec.stream)
     /\ \A i \in 1..Len(dec.stream) : DecodesAlone(dec.stream[i]))
        => IF dec.stream[Len(dec.stream)].key.type_value = PSBT_GLOBAL_XPUB
           THEN dec.res.kind = "ParseFailed"
           ELSE dec.res.kind = "DuplicateKey"

\* C4: after a successful Input::insert_pair of a pair with some raw key,
\* every later insert_pair on the same map with the identical raw key fails
\* with DuplicateKey carrying that key, whatever the value -- for tags 0..8,
\* the four preimage tags, the proprietary tag and unknown tags alike.
C4_InputDuplicateKey ==
    [][(in_calls' = in_calls + 1 /\ in_last'.pair.key \in in_keys)
          => (in_last'.res.kind = "DuplicateKey" /\ in_last'.res.data = in_last'.pair.key)]_vars

\* a preimage key is offered again, with a value that does not hash to it
C4_Witness ==
    /\ in_last.res.kind = "DuplicateKey"
    /\ in_last.pair.key \in in_keys
    /\ in_last.pair.key.type_value = PSBT_IN_SHA256
    /\ Sha256(in_last.pair.value) # in_last.pair.key.key

\* C5: after a successful Global::insert_pair of a pair with some raw key
\* (the version pair, an xpub, a proprietary or an unknown key), a second
\* insert_pair with the identical raw key fails with DuplicateKey and leaves
\* the map, the version field included, as the first insert made it.
C5_GlobalDuplicateKey ==
    [][(g_calls' = g_calls + 1 /\ g_last'.op = "insert_pair" /\ g_last'.pair.key \in g_keys)
          => (g_last'.res.kind = "DuplicateKey" /\ global' = global)]_vars

\* the same with the version pair left aside, and what a second version
\* pair does: it is parsed, and when it parses it replaces the version
C5_GlobalDuplicateKeySansVersion ==
    [][(g_calls' = g_calls + 1 /\ g_last'.op = "insert_pair" /\ g_last'.pair.key \in g_keys)
          => IF g_last'.pair.key.type_value # PSBT_GLOBAL_VERSION
             THEN g_last'.res.kind = "DuplicateKey" /\ global' = global
             ELSE /\ g_last'.res.kind # "DuplicateKey"
                  /\ Len(g_last'.pair.value) = 4
                        => /\ IsOk(g_last'.res)
                           /\ Unwrap(global').version = FromLE32(g_last'.pair.value)]_vars

\* C6: when insert_pair, of Input or of Global, returns an error, every
\* field of the map equals its value before the call.
C6_InsertPairAtomic ==
    [][/\ (in_calls' = in_calls + 1 /\ ~IsOk(in_last'.res)) => input' = input
       /\ (g_calls' = g_calls + 1 /\ g_last'.op = "insert_pair" /\ ~IsOk(g_last'.res))
             => global' = global]_vars

\* an insert_pair on a map that holds something already has failed
C6_Witness ==
    /\ in_last.op = "insert_pair"
    /\ in_last.res.kind = "InvalidPreimageHashPair"
    /\ input # InputDefault

SomeScriptSig(tx) == \E i \in 1..Len(tx.input) : tx.input[i].script_sig # <<>>

SomeWitness(tx) == \E i \in 1..Len(tx.input) : tx.input[i].witness # <<>>

\* what from_unsigned_tx(tx) has to return
FromUnsignedTxKinds(tx) ==
    (IF SomeScriptSig(tx) THEN {"UnsignedTxHasScriptSigs"} ELSE {})
    \cup (IF SomeWitness(tx) THEN {"UnsignedTxHasScriptWitnesses"} ELSE {})
    \cup (IF SomeScriptSig(tx) \/ SomeWitness(tx) THEN {} ELSE {"Ok"})

\* C7: the unsigned_tx of every Global that from_unsigned_tx or the decoder
\* returned has, in each of its inputs and not only the first, an empty
\* script_sig and an empty witness; from_unsigned_tx answers a transaction
\* with a non-empty script_sig by UnsignedTxHasScriptSigs and one with a
\* non-empty witness by UnsignedTxHasScriptWitnesses (one of the two when the
\* transaction has both), and makes no map then.
C7_UnsignedTxIsUnsigned ==
    /\ IsSome(global) =>
          /\ ~SomeScriptSig(Unwrap(global).unsigned_tx)
          /\ ~SomeWitness(Unwrap(global).unsigned_tx)
    /\ g_last.op = "from_unsigned_tx" =>
          /\ g_last.res.kind \in FromUnsignedTxKinds(Unwrap(g_last.tx))
          /\ IsOk(g_last.res) <=> IsSome(global)

\* from_unsigned_tx was given a transaction whose second input only is signed
C7_Witness ==
    /\ g_last.op = "from_unsigned_tx"
    /\ g_last.res.kind = "UnsignedTxHasScriptSigs"
    /\ Unwrap(g_last.tx).input[1].script_sig = <<>>
    /\ IsNone(global)

\* C8: a Global pair stream that comes to its end-of-map marker without a
\* pair of tag 0 in it fails with MustHaveUnsignedTx, whatever xpub, version,
\* proprietary and unknown pairs it held.
C8_MustHaveUnsignedTx ==
    (/\ dec.ended = "marker"
     /\ \A i \in 1..Len(dec.stream) : dec.stream[i].key.type_value # PSBT_GLOBAL_UNSIGNED_TX)
        => dec.res.kind = "MustHaveUnsignedTx" /\ IsNone(global)

\* the marker came after an xpub and a version pair and no transaction
C8_Witness ==
    /\ dec.ended = "marker"
    /\ dec.res.kind = "MustHaveUnsignedTx"
    /\ IsSome(dec.locals.version)
    /\ DOMAIN dec.locals.xpub_map # {}

\* the hash, the field and the digest length of a preimage tag
PreimageHash(t, v) ==
    CASE t = PSBT_IN_RIPEMD160 -> Ripemd160(v)
      [] t = PSBT_IN_SHA256 -> Sha256(v)
      [] t = PSBT_IN_HASH160 -> Hash160(v)
      [] t = PSBT_IN_HASH256 -> Sha256d(v)

PreimageField(self, t) ==
    CASE t = PSBT_IN_RIPEMD160 -> self.ripemd_preimages
      [] t = PSBT_IN_SHA256 -> self.sha256_preimages
      [] t = PSBT_IN_HASH160 -> self.hash160_preimages
      [] t = PSBT_IN_HASH256 -> self.hash256_preimages

PreimageDigestLen(t) ==
    IF t \in {PSBT_IN_RIPEMD160, PSBT_IN_HASH160} THEN Hash20Len ELSE Hash32Len

PreimageTags == {PSBT_IN_RIPEMD160, PSBT_IN_SHA256, PSBT_IN_HASH160, PSBT_IN_HASH256}

\* this step is Input::insert_pair of a preimage pair, its key data a digest
\* of the tag's length
PreimageCall ==
    /\ in_calls' = in_calls + 1
    /\ in_last'.pair.key.type_value \in PreimageTags
    /\ Len(in_last'.pair.key.key) = PreimageDigestLen(in_last'.pair.key.type_value)

\* v went in under d and get_pairs gives the pair back unchanged
PreimageStored(t, d, v) ==
    /\ IsOk(in_last'.res)
    /\ d \in DOMAIN PreimageField(input', t)
    /\ PreimageField(input', t)[d] = v
    /\ \E i \in DOMAIN InputGetPairs(input') : InputGetPairs(input')[i] = Pair(t, d, v)

PreimageRefused(kind) == in_last'.res.kind = kind /\ input' = input

PreimageAsStated(t, d, v) ==
    IF PreimageHash(t, v) # d THEN in_last'.res.kind = "InvalidPreimageHashPair"
    ELSE d \notin DOMAIN PreimageField(input, t) => PreimageStored(t, d, v)

PreimageAsCoded(t, d, v) ==
    IF d \in DOMAIN PreimageField(input, t) THEN PreimageRefused("DuplicateKey")
    ELSE IF PreimageHash(t, v) # d THEN PreimageRefused("InvalidPreimageHashPair")
    ELSE PreimageStored(t, d, v)

\* C9 as stated: for each of the four preimage tags, insert_pair of a digest
\* d with a value v fails with InvalidPreimageHashPair when hash(v) # d; when
\* hash(v) = d and d is not yet present it succeeds and stores v under d, and
\* get_pairs re-emits the same key and value.
C9_PreimageAsStated ==
    [][PreimageCall =>
          PreimageAsStated(in_last'.pair.key.type_value, in_last'.pair.key.key,
                           in_last'.pair.value)]_vars

\* C9: for each of the four preimage tags, insert_pair of a digest d that is
\* not yet present with a value v fails with InvalidPreimageHashPair when
\* hash(v) # d, and when hash(v) = d succeeds and stores v under d, so that
\* get_pairs re-emits the same key and value; when d is present already the
\* call fails with DuplicateKey, whether v hashes to d or not.
C9_PreimageValidation ==
    [][PreimageCall =>
          PreimageAsCoded(in_last'.pair.key.type_value, in_last'.pair.key.key,
                          in_last'.pair.value)]_vars

\* a value that does not hash to its digest was offered for a digest that is
\* not in the map, which holds another preimage
C9_Witness ==
    /\ in_last.res.kind = "InvalidPreimageHashPair"
    /\ in_last.pair.key.type_value = PSBT_IN_HASH256
    /\ in_last.pair.key.key \notin DOMAIN input.hash256_preimages
    /\ DOMAIN input.ripemd_preimages # {}

\* SigHashType: All, None, Single and the three with AnyoneCanPay
SigHashEnumerants == {1, 2, 3, 129, 130, 131}

\* C10: insert_pair, on a map whose sighash_type is unset, of a sighash-type
\* pair (tag 3, empty key) with a four-byte value that is little-endian n:
\* when n is no SigHashType enumerant it fails with NonStandardSigHashType(n)
\* (153 for the bytes 99 00 00 00 hex) and sighash_type stays unset; when n
\* is an enumerant, sighash_type becomes that enumerant.
C10_SighashValidation ==
    [][(/\ in_calls' = in_calls + 1
        /\ in_last'.pair.key = Key(PSBT_IN_SIGHASH_TYPE, <<>>)
        /\ Len(in_last'.pair.value) = 4
        /\ IsNone(input.sighash_type))
          => /\ IF FromLE32(in_last'.pair.value) \in SigHashEnumerants
                THEN /\ IsOk(in_last'.res)
                     /\ input'.sighash_type = Some(FromLE32(in_last'.pair.value))
                ELSE /\ in_last'.res.kind = "NonStandardSigHashType"
                     /\ in_last'.res.data = FromLE32(in_last'.pair.value)
                     /\ IsNone(input'.sighash_type)
             /\ in_last'.pair.value = <<153, 0, 0, 0>>
                   => in_last'.res.kind = "NonStandardSigHashType" /\ in_last'.res.data = 153]_vars

\* the bytes 99 00 00 00 hex were refused by a map that holds other fields,
\* and sighash_type is unset
C10_Witness ==
    /\ in_last.pair = Pair(PSBT_IN_SIGHASH_TYPE, <<>>, <<153, 0, 0, 0>>)
    /\ in_last.res.kind = "NonStandardSigHashType"
    /\ IsNone(input.sighash_type)
    /\ input # InputDefault

\* ranks ascend strictly from each element of a sequence to the next
Ascending(ranks) == \A i \in 1..(Len(ranks) - 1) : SeqLess(ranks[i], ranks[i + 1])

\* the place of a raw pair in the enumeration of a Global: its section (the
\* transaction, xpub, version, proprietary, unknown), then its key as the
\* section's map orders it
GlobalPairRank(p) ==
    CASE p.key.type_value = PSBT_GLOBAL_UNSIGNED_TX -> <<0>>
      [] p.key.type_value = PSBT_GLOBAL_XPUB -> <<1>> \o p.key.key
      [] p.key.type_value = PSBT_GLOBAL_VERSION -> <<2>>
      [] p.key.type_value = PSBT_GLOBAL_PROPRIETARY ->
           <<3>> \o ProprietaryRank(ProprietaryFromKey(p.key).val)
      [] OTHER -> <<4>> \o RawKeyRank(p.key)

\* ps starts with the transaction pair, runs in section and key order and
\* holds every proprietary and every unknown entry of g
GlobalPairsOrdered(ps, g) ==
    /\ ps # <<>>
    /\ ps[1] = Pair(PSBT_GLOBAL_UNSIGNED_TX, <<>>, WriteUnsignedTx(g.unsigned_tx))
    /\ Ascending([i \in DOMAIN ps |-> GlobalPairRank(ps[i])])
    /\ \A k \in DOMAIN g.proprietary :
           \E i \in DOMAIN ps : ps[i] = [key |-> ProprietaryToKey(k), value |-> g.proprietary[k]]
    /\ \A k \in DOMAIN g.unknown :
           \E i \in DOMAIN ps : ps[i] = [key |-> k, value |-> g.unknown[k]]

\* ps holds a pair for every xpub entry of g, and the version pair when the
\* version is not the default
GlobalPairsHaveXpubVersion(ps, g) ==
    /\ \A k \in DOMAIN g.xpub :
           \E i \in DOMAIN ps :
               ps[i] = Pair(PSBT_GLOBAL_XPUB, Serialize("ExtendedPubKey", k),
                            Serialize("KeySource", g.xpub[k]))
    /\ g.version # 0 =>
           \E i \in DOMAIN ps : ps[i] = Pair(PSBT_GLOBAL_VERSION, <<>>, LE32(g.version))

\* C11: Global.get_pairs emits the unsigned-transaction pair first, then a
\* pair for every xpub entry, then the version pair when a version is set,
\* then the proprietary entries and the unknown entries, each in key order;
\* no populated field of the map is missing from the output.
C11_GlobalGetPairsComplete ==
    IsSome(global) =>
        /\ GlobalPairsOrdered(GlobalGetPairs(Unwrap(global)), Unwrap(global))
        /\ GlobalPairsHaveXpubVersion(GlobalGetPairs(Unwrap(global)), Unwrap(global))

\* what get_pairs does emit: the transaction pair, the proprietary entries
\* and the unknown entries in that order, and nothing for xpub or version
C11_GlobalGetPairsSansXpubVersion ==
    IsSome(global) =>
        /\ GlobalPairsOrdered(GlobalGetPairs(Unwrap(global)), Unwrap(global))
        /\ Len(GlobalGetPairs(Unwrap(global)))
             = 1 + Cardinality(DOMAIN Unwrap(global).proprietary)
                 + Cardinality(DOMAIN Unwrap(global).unknown)

Reverse(s) == [i \in 1..Len(s) |-> s[Len(s) + 1 - i]]

\* the tags of the known fields of an Input, in the order of the field table
InputKnownTags == (0..8) \cup (10..13)

\* the key a field's map orders its entries by, from the raw key of a pair
InputKeyRank(key) ==
    IF key.type_value \in {PSBT_IN_PARTIAL_SIG, PSBT_IN_BIP32_DERIVATION}
    THEN PublicKeyRank(DeserializePublicKey(key.key).val)
    ELSE key.key

\* the place of a raw pair in the enumeration of an Input: the known fields
\* by tag, then proprietary, then unknown, and inside a map the key order
InputPairRank(p) ==
    CASE p.key.type_value \in InputKnownTags -> <<p.key.type_value>> \o InputKeyRank(p.key)
      [] p.key.type_value = PSBT_IN_PROPRIETARY ->
           <<14>> \o ProprietaryRank(ProprietaryFromKey(p.key).val)
      [] OTHER -> <<15>> \o RawKeyRank(p.key)

\* the number of fields and map entries an Input holds
InputPopulation(self) ==
    Cardinality({f \in {"non_witness_utxo", "witness_utxo", "sighash_type", "redeem_script",
                        "witness_script", "final_script_sig", "final_script_witness"} :
                   IsSome(self[f])})
    + Sum([i \in 1..8 |->
             Cardinality(DOMAIN self[<<"partial_sigs", "bip32_derivation", "ripemd_preimages",
                                       "sha256_preimages", "hash160_preimages",
                                       "hash256_preimages", "proprietary", "unknown">>[i]])])

\* ps is in the fixed order, holds one pair per populated field or entry, and
\* is what get_pairs gives again after the pairs went in in the opposite order
InputPairsOrdered(ps, self) ==
    /\ Ascending([i \in DOMAIN ps |-> InputPairRank(ps[i])])
    /\ Len(ps) = InputPopulation(self)
    /\ InputGetPairs(InputInsertAll(InputDefault, Reverse(ps)).map) = ps

\* C12: Input.get_pairs emits the known fields in field-table order (tags
\* 0x00..0x08, then 0x0A..0x0D, a map's entries in ascending key order), then
\* the proprietary entries and the unknown entries in key order, whatever
\* the order the pairs were inserted in; only present fields are emitted.
C12_InputGetPairsOrder == InputPairsOrdered(InputGetPairs(input), input)

\* the pair inserted last is emitted first, before an entry of the same map
C12_Witness ==
    /\ Len(InputGetPairs(input)) = 2
    /\ IsOk(in_last.res)
    /\ in_last.pair = InputGetPairs(input)[1]
    /\ InputGetPairs(input)[2].key.type_value = PSBT_IN_PARTIAL_SIG
    /\ InputGetPairs(input)[1].key.key = PkUncompressed

\* the tags Global::insert_pair and Input::insert_pair have an arm for
GlobalKnownTags ==
    {PSBT_GLOBAL_UNSIGNED_TX, PSBT_GLOBAL_XPUB, PSBT_GLOBAL_VERSION, PSBT_GLOBAL_PROPRIETARY}

InputArmTags == InputKnownTags \cup {PSBT_IN_PROPRIETARY}

\* insert_pair(pair) took a map from `before` to `after` and returned res: the
\* value sits under the raw key in unknown, nothing else changed, and pairs
\* (what get_pairs gives for `after`) holds the pair as it was handed in
UnknownKept(before, after, res, pair, pairs) ==
    /\ IsOk(res)
    /\ after = [before EXCEPT !.unknown = MapInsert(@, pair.key, pair.value)]
    /\ after.unknown[pair.key] = pair.value
    /\ \E i \in DOMAIN pairs : pairs[i] = pair

\* the step is a call of Input::insert_pair with an unrecognized tag and a
\* raw key the unknown map does not hold
InputUnknownCall ==
    /\ in_calls' # in_calls
    /\ in_last'.pair.key.type_value \notin InputArmTags
    /\ in_last'.pair.key \notin DOMAIN input.unknown

GlobalUnknownCall ==
    /\ g_calls' # g_calls
    /\ dec' = dec
    /\ g_last'.pair.key.type_value \notin GlobalKnownTags
    /\ g_last'.pair.key \notin DOMAIN Unwrap(global).unknown

UnknownRoundTrip ==
    /\ InputUnknownCall =>
           UnknownKept(input, input', in_last'.res, in_last'.pair, InputGetPairs(input'))
    /\ GlobalUnknownCall =>
           UnknownKept(Unwrap(global), Unwrap(global'), g_last'.res, g_last'.pair,
                       GlobalGetPairs(Unwrap(global')))

\* C13: for Global and for Input, insert_pair of a pair whose type tag is not
\* a recognized field type stores the value, uninterpreted, under the full
\* raw key (type_tag, key_data) in the unknown map, and get_pairs emits a
\* pair with exactly that key and exactly that value.
C13_UnknownRoundTrip == [][UnknownRoundTrip]_vars

\* a Global took an unknown pair with key data, next to an unknown pair
\* without
C13_Witness ==
    /\ IsSome(global)
    /\ g_last.op = "insert_pair"
    /\ IsOk(g_last.res)
    /\ g_last.pair = Pair(66, <<7>>, <<1>>)
    /\ Cardinality(DOMAIN Unwrap(global).unknown) = 2

\* the same for an Input, where tag 9 has no arm
C13_WitnessInput ==
    /\ IsOk(in_last.res)
    /\ in_last.pair.key.type_value = 9
    /\ Cardinality(DOMAIN input.unknown) = 2

(***************************************************************************)
(* Merge.  Map::merge takes two maps of one kind.  Both are drawn from the *)
(* maps that insert_pair builds out of a few pairs (for a Global, on top   *)
(* of from_unsigned_tx), then merge is applied once: self is `input` or    *)
(* `global`, the other map is mrg.other.                                   *)
(***************************************************************************)
MaxMergePairs == 2

SeqsUpTo(S, n) == UNION {[1..k -> S] : k \in 0..n}

MergeInputPairs ==
    { Pair(0, <<>>, SerializeTransaction(TxSigned)),
      Pair(0, <<>>, SerializeTransaction(TxSegwit)),
      Pair(1, <<>>, SerializeTxOut(OutA)),
      Pair(1, <<>>, SerializeTxOut(OutB)),
      Pair(2, PkCompressed, <<48, 1>>),
      Pair(2, PkCompressed, <<48, 2>>),
      Pair(2, PkCompressed2, <<48, 3>>),
      Pair(4, <<>>, <<81>>),
      Pair(4, <<>>, <<82>>),
      Pair(9, <<>>, <<1>>) }

InputMaps ==
    {InputInsertAll(InputDefault, s).map : s \in SeqsUpTo(MergeInputPairs, MaxMergePairs)}

MergeGlobalPairs ==
    { Pair(1, XpubA, FingerprintA \o <<44, 0, 0, 0>>),
      Pair(1, XpubA, FingerprintA),
      Pair(252, PropKeyBytes, <<1>>),
      Pair(252, PropKeyBytes, <<2>>),
      Pair(2, <<>>, <<1>>),
      Pair(2, <<>>, <<2>>),
      Pair(66, <<7>>, <<1>>) }

\* insert_pair folded over pairs on a Global
RECURSIVE GlobalInsertAll(_, _)
GlobalInsertNext(r, pairs) ==
    IF IsOk(r.res) THEN GlobalInsertAll(r.map, Drop(pairs, 1)) ELSE r

GlobalInsertAll(self, pairs) ==
    IF pairs = <<>> THEN Ret(self, OkRes)
    ELSE GlobalInsertNext(GlobalInsertPair(self, pairs[1]), pairs)

GlobalMaps ==
    {GlobalInsertAll(GlobalFromUnsignedTx(tx).val, s).map :
        tx \in {TxNoInput, TxOneInput}, s \in SeqsUpTo(MergeGlobalPairs, MaxMergePairs)}

MergeReady(kind, other) ==
    [pc |-> "ready", kind |-> kind, self |-> <<>>, other |-> other, res |-> NoRes]

MergeInit ==
    /\ in_last = NoCall
    /\ in_calls = 0
    /\ in_keys = {}
    /\ g_last = NoCall
    /\ g_calls = 0
    /\ g_keys = {}
    /\ dec = DecodeIdle
    /\ std_eof_seek = FALSE
    /\ adr = AddrIdle
    /\ \/ /\ input \in InputMaps
          /\ global = None
          /\ mrg \in {MergeReady("Input", other) : other \in InputMaps}
       \/ /\ input = InputDefault
          /\ global \in {Some(g) : g \in GlobalMaps}
          /\ mrg \in {MergeReady("Global", other) : other \in GlobalMaps}

\* merge returned r
MergeReturn(self, r) == mrg' = [mrg EXCEPT !.pc = "done", !.self = self, !.res = r.res]

\* input.merge(other)
InMerge ==
    /\ mrg.pc = "ready"
    /\ mrg.kind = "Input"
    /\ input' = InputMerge(input, mrg.other).map
    /\ MergeReturn(input, InputMerge(input, mrg.other))
    /\ UNCHANGED <<in_last, in_calls, in_keys, global, g_last, g_calls, g_keys, dec, std_eof_seek, adr>>

\* global.merge(other)
GMerge ==
    /\ mrg.pc = "ready"
    /\ mrg.kind = "Global"
    /\ global' = Some(GlobalMerge(Unwrap(global), mrg.other).map)
    /\ MergeReturn(Unwrap(global), GlobalMerge(Unwrap(global), mrg.other))
    /\ UNCHANGED <<input, in_last, in_calls, in_keys, g_last, g_calls, g_keys, dec, std_eof_seek, adr>>

MergeNext == InMerge \/ GMerge

MergeSpec == MergeInit /\ [][MergeNext]_vars

InputMerged == mrg.pc = "done" /\ mrg.kind = "Input"

GlobalMerged == mrg.pc = "done" /\ mrg.kind = "Global"

OptionsAgree(x, y) == IsNone(x) \/ IsNone(y) \/ x = y

MapsAgree(m1, m2) == \A k \in (DOMAIN m1) \cap (DOMAIN m2) : m1[k] = m2[k]

\* the two parents of a and b can be merged either way round: with a witness
\* descriptor on both sides or on neither, nothing contradicts; with one on
\* one side only, neither map holds a non-witness parent
UtxosAgree(a, b) ==
    IF IsSome(a.witness_utxo) = IsSome(b.witness_utxo)
    THEN OptionsAgree(a.witness_utxo, b.witness_utxo)
         /\ OptionsAgree(a.non_witness_utxo, b.non_witness_utxo)
    ELSE IsNone(a.non_witness_utxo) /\ IsNone(b.non_witness_utxo)

InputsAgree(a, b) ==
    /\ UtxosAgree(a, b)
    /\ \A f \in {"sighash_type", "redeem_script", "witness_script", "final_script_sig",
                 "final_script_witness"} : OptionsAgree(a[f], b[f])
    /\ \A f \in {"partial_sigs", "bip32_derivation", "ripemd_preimages", "sha256_preimages",
                 "hash160_preimages", "hash256_preimages", "proprietary", "unknown"} :
           MapsAgree(a[f], b[f])

OnlyField(m, f) == IsSome(m[f]) /\ m = [InputDefault EXCEPT ![f] = m[f]]

\* C15: merging an Input whose only populated field is witness_utxo into an
\* Input whose only populated field is non_witness_utxo leaves witness_utxo
\* present and equal to the other's, and non_witness_utxo cleared.
C15_WitnessSupersedes ==
    (/\ InputMerged
     /\ OnlyField(mrg.self, "non_witness_utxo")
     /\ OnlyField(mrg.other, "witness_utxo"))
    => /\ IsOk(mrg.res)
       /\ IsSome(input.witness_utxo)
       /\ input.witness_utxo = mrg.other.witness_utxo
       /\ IsNone(input.non_witness_utxo)

C15_Witness ==
    /\ InputMerged
    /\ OnlyField(mrg.self, "non_witness_utxo")
    /\ OnlyField(mrg.other, "witness_utxo")
    /\ input = mrg.other

\* field f of the merged Global g is the union of self's and other's, self's
\* entry kept on a key both hold
UnionSelfFirst(g, self, other, f) ==
    /\ DOMAIN g[f] = (DOMAIN self[f]) \cup (DOMAIN other[f])
    /\ \A k \in DOMAIN g[f] : g[f][k] = IF k \in DOMAIN self[f] THEN self[f][k] ELSE other[f][k]

GlobalMergeAsStated(g, self, other, res) ==
    IF self.unsigned_tx # other.unsigned_tx
    THEN /\ res.kind = "UnexpectedUnsignedTx"
         /\ res.data.expected = self.unsigned_tx
         /\ res.data.actual = other.unsigned_tx
    ELSE /\ IsOk(res)
         /\ \A f \in {"xpub", "proprietary", "unknown"} : UnionSelfFirst(g, self, other, f)

\* C16: merging a Global whose unsigned_tx differs from self's fails with
\* UnexpectedUnsignedTx carrying expected = self's and actual = other's
\* transaction; when they are equal, xpub, proprietary and unknown become
\* the unions of both maps' entries, self's entry kept on key collision.
C16_GlobalMerge ==
    GlobalMerged => GlobalMergeAsStated(Unwrap(global), mrg.self, mrg.other, mrg.res)

\* two Globals of one transaction that hold different values under one
\* unknown key and under one xpub were merged
C16_Witness ==
    /\ GlobalMerged
    /\ IsOk(mrg.res)
    /\ \E k \in (DOMAIN mrg.self.unknown) \cap (DOMAIN mrg.other.unknown) :
           mrg.self.unknown[k] # mrg.other.unknown[k]
    /\ \E k \in (DOMAIN mrg.self.xpub) \cap (DOMAIN mrg.other.xpub) :
           mrg.self.xpub[k] # mrg.other.xpub[k]

\* a merge of Globals of different transactions was refused
C16_WitnessRefused ==
    /\ GlobalMerged
    /\ mrg.res.kind = "UnexpectedUnsignedTx"
    /\ mrg.self.unsigned_tx # mrg.other.unsigned_tx

\* the pair the decoder's loop handled last, once it has handled one and has
\* not yet seen the end of the stream
LastPairHandled == dec.stream # <<>> /\ (dec.pc = "loop" \/ dec.ended = "pair")

LastPair == dec.stream[Len(dec.stream)]

\* no earlier pair of the stream has the tag of the last one
FirstOfItsTag == \A i \in 1..(Len(dec.stream) - 1) : dec.stream[i].key.type_value # LastPair.key.type_value

\* the last pair was refused with ParseFailed
RefusedParseFailed == dec.ended = "pair" /\ dec.res.kind = "ParseFailed"

\* a version pair whose value is not four bytes long
BadVersionPair(p) ==
    p.key = Key(PSBT_GLOBAL_VERSION, <<>>) /\ Len(p.value) # 4

\* an unsigned-transaction pair whose value goes on after the lock time
BadTxPair(p) ==
    /\ p.key = Key(PSBT_GLOBAL_UNSIGNED_TX, <<>>)
    /\ \E n \in 1..(Len(p.value) - 1) : ReadUnsignedTx(Take(p.value, n)).ok

\* an xpub pair under a well-formed key whose value is not a fingerprint
\* followed by whole child indexes
BadXpubPair(p) ==
    /\ p.key.type_value = PSBT_GLOBAL_XPUB
    /\ DeserializeXpub(p.key.key).ok
    /\ (Len(p.value) < FingerprintLen \/ (Len(p.value) - FingerprintLen) % 4 # 0)

\* C17: in Global decode, a version pair whose value is not exactly 4 bytes,
\* an unsigned-transaction pair whose value has bytes left after the lock
\* time, and an xpub pair whose value length is not 4 + 4k each fail with
\* ParseFailed; trailing bytes are never ignored.
C17_FixedShapeExact ==
    (/\ LastPairHandled
     /\ FirstOfItsTag
     /\ BadVersionPair(LastPair) \/ BadTxPair(LastPair) \/ BadXpubPair(LastPair))
    => RefusedParseFailed

\* what the decoder does with such pairs: version and transaction as stated;
\* an xpub value shorter than the fingerprint is refused with the read error
\* of read_exact, and one with 1 to 3 bytes after the last whole child index
\* is refused with ParseFailed or accepted without those bytes, as the
\* standard library's cursor leaves its position after a failed read
C17_FixedShapeAsCoded ==
    (LastPairHandled /\ FirstOfItsTag) =>
        /\ (BadVersionPair(LastPair) \/ BadTxPair(LastPair)) => RefusedParseFailed
        /\ (BadXpubPair(LastPair) /\ Len(LastPair.value) < FingerprintLen) =>
               (dec.ended = "pair" /\ dec.res = EofErr)
        /\ (BadXpubPair(LastPair) /\ Len(LastPair.value) >= FingerprintLen) =>
               IF std_eof_seek
               THEN /\ dec.pc = "loop"
                    /\ Len(dec.locals.xpub_map[DeserializeXpub(LastPair.key.key).val].path)
                         = (Len(LastPair.value) - FingerprintLen) \div 4
               ELSE RefusedParseFailed

\* an xpub value with three bytes after its child index was accepted
C17_TrailingIgnored ==
    /\ LastPairHandled
    /\ BadXpubPair(LastPair)
    /\ dec.pc = "loop"

\* the last pair is an xpub pair the decoder accepted
XpubAccepted ==
    /\ LastPairHandled
    /\ dec.pc = "loop"
    /\ LastPair.key.type_value = PSBT_GLOBAL_XPUB

\* what the decoder stored for it
XpubStored == dec.locals.xpub_map[DeserializeXpub(LastPair.key.key).val]

\* the four bytes of child index i in the value, after the fingerprint
ChildBytes(value, i) == [j \in 1..4 |-> value[FingerprintLen + 4 * (i - 1) + j]]

BigEndian(b) == b[1] * 16777216 + b[2] * 65536 + b[3] * 256 + b[4]

LittleEndian(b) == b[1] + b[2] * 256 + b[3] * 65536 + b[4] * 16777216

\* C18: the bytes b0 b1 b2 b3 of a child index in a global xpub value yield
\* the child index b0*2^24 + b1*2^16 + b2*2^8 + b3.
C18_PathBigEndian ==
    XpubAccepted =>
        \A i \in 1..Len(XpubStored.path) :
            XpubStored.path[i] = BigEndian(ChildBytes(LastPair.value, i))

\* C18, as decoded: after the 4-byte fingerprint the value is read as 4-byte
\* little-endian integers; the bytes b0 b1 b2 b3 yield the child index
\* b0 + b1*2^8 + b2*2^16 + b3*2^24, one for every whole group of four bytes.
C18_PathLittleEndian ==
    XpubAccepted =>
        /\ XpubStored.fingerprint = Take(LastPair.value, FingerprintLen)
        /\ Len(XpubStored.path) = (Len(LastPair.value) - FingerprintLen) \div 4
        /\ \A i \in 1..Len(XpubStored.path) :
               XpubStored.path[i] = LittleEndian(ChildBytes(LastPair.value, i))

\* an accepted xpub value with a child index whose two readings differ
C18_Witness ==
    /\ XpubAccepted
    /\ Len(XpubStored.path) = 2
    /\ ChildBytes(LastPair.value, 2) = <<1, 2, 3, 4>>
    /\ XpubStored.path = <<44, 67305985>>

\* the decoder left its loop on the end-of-map marker, having read the
\* unsigned transaction pair, and the map it returned was not touched since
DecodedWithTx ==
    /\ dec.ended = "marker"
    /\ g_last.op = "none"
    /\ \E i \in DOMAIN dec.stream : dec.stream[i].key.type_value = PSBT_GLOBAL_UNSIGNED_TX

TxIndex(stream) ==
    CHOOSE i \in DOMAIN stream : stream[i].key.type_value = PSBT_GLOBAL_UNSIGNED_TX

\* the stream with its pair i moved to the front, the others in their order
MoveFirst(stream, i) ==
    <<stream[i]>> \o [j \in 1..(Len(stream) - 1) |-> IF j < i THEN stream[j] ELSE stream[j + 1]]

\* the decoding r ends as the decoding that gave map g and result res
SameOutcome(r, g, res) ==
    IF IsOk(res) THEN r.ok /\ Some(r.val) = g
    ELSE ~r.ok /\ r.err = res /\ g = None

\* C19: a stream closed by the end-of-map marker in which the tag-0x00 pair
\* comes after xpub, version, proprietary or unknown pairs decodes to the
\* same Global (or to the same complaint about the transaction) as the
\* stream with the same pairs and the tag-0x00 pair first.
C19_TxPositionFree ==
    DecodedWithTx =>
        SameOutcome(GlobalDecode(MoveFirst(dec.stream, TxIndex(dec.stream)), std_eof_seek),
                    global, dec.res)

\* a stream with the transaction pair after an xpub pair and a third pair
\* was decoded to a Global
C19_Witness ==
    /\ DecodedWithTx
    /\ IsSome(global)
    /\ TxIndex(dec.stream) >= 2
    /\ dec.stream[1].key.type_value = PSBT_GLOBAL_XPUB
    /\ DOMAIN Unwrap(global).xpub # {}
    /\ Len(dec.stream) >= 3

\* the transaction pair came last, and the complaint about its script_sig
\* was raised at the marker
C19_WitnessSigned ==
    /\ DecodedWithTx
    /\ dec.res.kind = "UnsignedTxHasScriptSigs"
    /\ TxIndex(dec.stream) >= 2

\* the error of ExtendedPubKey::decode on the bytes of an xpub key
Bip32Error(bytes) ==
    Error("bip32::Error",
          IF Len(bytes) # XpubLen THEN "WrongExtendedKeyLength" ELSE "UnknownVersion")

\* the failure that a step of handling pair p raises, if one does, for a
\* pair that is not refused for its key: by the transaction reader, the
\* version length test, ExtendedPubKey::decode, the read of the fingerprint,
\* the read of a child index from fewer than four bytes left, or
\* ProprietaryKey::from_key
RaisedFailure(p) ==
    CASE p.key = Key(PSBT_GLOBAL_UNSIGNED_TX, <<>>) ->
           IF ReadUnsignedTx(p.value).ok THEN None ELSE Some(ReadUnsignedTx(p.value).err)
      [] p.key = Key(PSBT_GLOBAL_VERSION, <<>>) ->
           IF Len(p.value) = 4 THEN None
           ELSE Some(Error("ParseFailed", "Wrong global version value length (must be 4 bytes)"))
      [] p.key.type_value = PSBT_GLOBAL_XPUB /\ p.key.key # <<>> ->
           IF ~DeserializeXpub(p.key.key).ok THEN Some(Bip32Error(p.key.key))
           ELSE IF Len(p.value) < FingerprintLen THEN Some(EofErr)
           ELSE IF (Len(p.value) - FingerprintLen) % 4 # 0 THEN Some(EofErr)
           ELSE None
      [] p.key.type_value = PSBT_GLOBAL_PROPRIETARY ->
           IF ProprietaryFromKey(p.key).ok THEN None ELSE Some(ProprietaryFromKey(p.key).err)
      [] OTHER -> None

\* consensus_decode has returned Ok(map) or one of the typed errors
TypedOutcome ==
    dec.pc = "done" =>
        /\ dec.res.kind \in ErrorKinds \cup {"Ok"}
        /\ g_last.op = "none" => (IsOk(dec.res) <=> IsSome(global))
        /\ dec.ended = "read" => dec.res = EofErr

\* C20: for every sequence of raw pairs followed by the end-of-map marker or
\* by a read error, Global decode returns Ok(map) or a typed error, and a
\* failure raised while handling a pair is returned to the caller unchanged.
C20_DecodeFailuresReturned ==
    /\ TypedOutcome
    /\ (LastPairHandled /\ FirstOfItsTag /\ IsSome(RaisedFailure(LastPair))) =>
           (dec.ended = "pair" /\ dec.res = Unwrap(RaisedFailure(LastPair)))

\* the failures of the xpub arm that do not reach the caller as raised
XpubKeyFailure(p) ==
    p.key.type_value = PSBT_GLOBAL_XPUB /\ p.key.key # <<>> /\ ~DeserializeXpub(p.key.key).ok

PartialChildIndex(p) ==
    /\ p.key.type_value = PSBT_GLOBAL_XPUB
    /\ DeserializeXpub(p.key.key).ok
    /\ Len(p.value) >= FingerprintLen
    /\ (Len(p.value) - FingerprintLen) % 4 # 0

\* what the decoder does: the outcome is always Ok(map) or a typed error; a
\* raised failure is returned as raised, except that the failure of
\* ExtendedPubKey::decode is replaced by ParseFailed and that the failed
\* read of a partial child index is dropped by the path loop, after which
\* the pair is refused with ParseFailed or accepted, as the cursor leaves
\* its position
C20_DecodeFailuresAsCoded ==
    /\ TypedOutcome
    /\ (LastPairHandled /\ FirstOfItsTag /\ IsSome(RaisedFailure(LastPair))) =>
           CASE XpubKeyFailure(LastPair) ->
                  /\ dec.ended = "pair"
                  /\ dec.res = Error("ParseFailed",
                                     "Can't deserialize ExtendedPublicKey from global XPUB key data")
             [] PartialChildIndex(LastPair) ->
                  IF std_eof_seek THEN dec.pc = "loop"
                  ELSE dec.ended = "pair" /\ dec.res = NotConsumedErr
             [] OTHER -> dec.ended = "pair" /\ dec.res = Unwrap(RaisedFailure(LastPair))

\* a pair whose handling raised a failure was accepted and the decoder went
\* on to return a map
C20_FailureDropped ==
    /\ dec.ended = "marker"
    /\ IsOk(dec.res)
    /\ \E i \in DOMAIN dec.stream : PartialChildIndex(dec.stream[i])

(***************************************************************************)
(* util/address.rs.  A Result of this module is a record with the kind     *)
(* "Ok" or the name of the address::Error variant, the value of an Ok and  *)
(* the data of the error.                                                  *)
(***************************************************************************)
AOk(v) == [kind |-> "Ok", val |-> <<v>>, data |-> <<>>]
AErr(kind, data) == [kind |-> kind, val |-> <<>>, data |-> data]

\* opcodes::all, as used by address.rs
OP_PUSHBYTES_0 == 0
OP_PUSHNUM_1 == 81
OP_PUSHNUM_16 == 96

\* u8 arithmetic of a release build: the result wraps
U8 == 256
U8Add(a, b) == (a + b) % U8
U8Sub(a, b) == (a - b) % U8
\* what a debug build panics on
U8Fits(x) == x \in 0..(U8 - 1)

\* enum WitnessVersion, #[repr(u8)]: the n-th variant has the discriminant n - 1
WitnessVersions ==
    <<"V0", "V1", "V2", "V3", "V4", "V5", "V6", "V7", "V8", "V9", "V10", "V11", "V12", "V13",
      "V14", "V15", "V16">>

WitnessVersion == {WitnessVersions[i] : i \in DOMAIN WitnessVersions}

\* from_no with the variants taken one further down the enum
WitnessVersionFromNoShifted(no) ==
    IF no + 1 < Len(WitnessVersions)
    THEN AOk(WitnessVersions[no + 2])
    ELSE AErr("InvalidWitnessVersion", no)

\* WitnessVersion::from_no
WitnessVersionFromNo(no) ==
    IF no < Len(WitnessVersions)
    THEN AOk(WitnessVersions[no + 1])
    ELSE AErr("InvalidWitnessVersion", no)

\* WitnessVersion::into_no: self as u8
WitnessVersionIntoNo(version) == (CHOOSE i \in DOMAIN WitnessVersions : WitnessVersions[i] = version) - 1

\* bech32::u5::try_from_u8 and u5::to_u8
U5 == 32
U5TryFromU8(value) == IF value < U5 THEN AOk(value) ELSE AErr("InvalidData", value)

\* WitnessVersion::from_u5
WitnessVersionFromU5(value) == WitnessVersionFromNo(value)

\* WitnessVersion::from_opcode
WitnessVersionFromOpcode(opcode) ==
    IF opcode = 0 THEN AOk("V0")
    ELSE IF opcode >= OP_PUSHNUM_1 /\ opcode <= OP_PUSHNUM_16
         THEN WitnessVersionFromNo(U8Add(U8Sub(opcode, OP_PUSHNUM_1), 1))
         ELSE AErr("MalformedWitnessVersion", <<>>)

\* From<WitnessVersion> for bech32::u5: expect() panics on an Err
WitnessVersionIntoU5(version) ==
    LET r == U5TryFromU8(WitnessVersionIntoNo(version))
    IN  IF IsOk(r) THEN r ELSE AErr("panic", "WitnessVersion must be 0..=16")

\* From<WitnessVersion> for opcodes::All, with the subtraction made first
WitnessVersionIntoOpcodeSubFirst(version) ==
    IF version = "V0" THEN OP_PUSHBYTES_0
    ELSE U8Add(OP_PUSHNUM_1, U8Sub(WitnessVersionIntoNo(version), 2))

\* From<WitnessVersion> for opcodes::All
WitnessVersionIntoOpcode(version) ==
    IF version = "V0" THEN OP_PUSHBYTES_0
    ELSE U8Sub(U8Add(OP_PUSHNUM_1, WitnessVersionIntoNo(version)), 1)

\* the exact values of the two u8 operations of that conversion
WitnessVersionIntoOpcodeSteps(version) ==
    <<OP_PUSHNUM_1 + WitnessVersionIntoNo(version),
      OP_PUSHNUM_1 + WitnessVersionIntoNo(version) - 1>>

(***************************************************************************)
(* blockdata/script.rs, the part address.rs calls.  A Script is its bytes. *)
(***************************************************************************)
OP_PUSHBYTES_2 == 2
OP_PUSHBYTES_20 == 20
OP_PUSHBYTES_40 == 40
OP_PUSHDATA1 == 76
OP_DUP == 118
OP_EQUAL == 135
OP_EQUALVERIFY == 136
OP_HASH160 == 169
OP_CHECKSIG == 172

\* Builder::push_slice, for data of less than 256 bytes
PushSlice(data) ==
    IF Len(data) < OP_PUSHDATA1 THEN <<Len(data)>> \o data
    ELSE <<OP_PUSHDATA1, Len(data)>> \o data

\* Script::new_p2pkh
NewP2pkh(hash) == <<OP_DUP, OP_HASH160>> \o PushSlice(hash) \o <<OP_EQUALVERIFY, OP_CHECKSIG>>

\* Script::new_p2sh
NewP2sh(hash) == <<OP_HASH160>> \o PushSlice(hash) \o <<OP_EQUAL>>

\* Script::new_witness_program
NewWitnessProgram(version, program) == <<WitnessVersionIntoOpcode(version)>> \o PushSlice(program)

\* Script::is_p2pkh
IsP2pkh(script) ==
    /\ Len(script) = 25
    /\ script[1] = OP_DUP
    /\ script[2] = OP_HASH160
    /\ script[3] = OP_PUSHBYTES_20
    /\ script[24] = OP_EQUALVERIFY
    /\ script[25] = OP_CHECKSIG

\* Script::is_p2sh
IsP2sh(script) ==
    /\ Len(script) = 23
    /\ script[1] = OP_HASH160
    /\ script[2] = OP_PUSHBYTES_20
    /\ script[23] = OP_EQUAL

\* Script::is_witness_program
IsWitnessProgram(script) ==
    /\ Len(script) >= 4
    /\ Len(script) <= 42
    /\ IsOk(WitnessVersionFromOpcode(script[1]))
    /\ script[2] >= OP_PUSHBYTES_2
    /\ script[2] <= OP_PUSHBYTES_40
    /\ Len(script) - 2 = script[2]

(***************************************************************************)
(* enum Payload and struct Address.                                        *)
(***************************************************************************)
PubkeyHash(hash) == [variant |-> "PubkeyHash", hash |-> hash, version |-> "", program |-> <<>>]
ScriptHash(hash) == [variant |-> "ScriptHash", hash |-> hash, version |-> "", program |-> <<>>]
WitnessProgram(version, program) ==
    [variant |-> "WitnessProgram", hash |-> <<>>, version |-> version, program |-> program]

Address(payload, network) == [payload |-> payload, network |-> network]

Network == {"Bitcoin", "Testnet", "Signet", "Regtest"}

\* from_script taking the hash of a P2SH script where that of a P2PKH script lies
PayloadFromScriptOneOffset(script) ==
    IF IsP2pkh(script) THEN Some(PubkeyHash(SubSeq(script, 4, 23)))
    ELSE IF IsP2sh(script) THEN Some(ScriptHash(SubSeq(script, 4, 23)))
    ELSE IF IsWitnessProgram(script)
         THEN LET version == WitnessVersionFromOpcode(script[1])
              IN  IF IsOk(version)
                  THEN Some(WitnessProgram(Unwrap(version.val), Drop(script, 2)))
                  ELSE None
         ELSE None

\* Payload::from_script
PayloadFromScript(script) ==
    IF IsP2pkh(script) THEN Some(PubkeyHash(SubSeq(script, 4, 23)))
    ELSE IF IsP2sh(script) THEN Some(ScriptHash(SubSeq(script, 3, 22)))
    ELSE IF IsWitnessProgram(script)
         THEN LET version == WitnessVersionFromOpcode(script[1])
              IN  IF IsOk(version)
                  THEN Some(WitnessProgram(Unwrap(version.val), Drop(script, 2)))
                  ELSE None
         ELSE None

\* Payload::script_pubkey
PayloadScriptPubkey(payload) ==
    CASE payload.variant = "PubkeyHash" -> NewP2pkh(payload.hash)
      [] payload.variant = "ScriptHash" -> NewP2sh(payload.hash)
      [] payload.variant = "WitnessProgram" -> NewWitnessProgram(payload.version, payload.program)

\* Address::from_script
AddressFromScript(script, network) ==
    LET payload == PayloadFromScript(script)
    IN  IF IsSome(payload) THEN Some(Address(Unwrap(payload), network)) ELSE None

\* Address::script_pubkey
AddressScriptPubkey(address) == PayloadScriptPubkey(address.payload)

(***************************************************************************)
(* Strings.  A string is the sequence of its characters; the characters    *)
(* used are the ASCII digits and letters.                                  *)
(***************************************************************************)
Digits == <<"0", "1", "2", "3", "4", "5", "6", "7", "8", "9">>
Lower ==
    <<"a", "b", "c", "d", "e", "f", "g", "h", "i", "j", "k", "l", "m", "n", "o", "p", "q", "r",
      "s", "t", "u", "v", "w", "x", "y", "z">>
Upper ==
    <<"A", "B", "C", "D", "E", "F", "G", "H", "I", "J", "K", "L", "M", "N", "O", "P", "Q", "R",
      "S", "T", "U", "V", "W", "X", "Y", "Z">>

Has(seq, c) == \E i \in DOMAIN seq : seq[i] = c
IndexOf(seq, c) == CHOOSE i \in DOMAIN seq : seq[i] = c

\* char::is_lowercase, char::is_uppercase, to_ascii_lowercase, to_ascii_uppercase
IsLowercase(c) == Has(Lower, c)
IsUppercase(c) == Has(Upper, c)
ToLowercase(c) == IF IsUppercase(c) THEN Lower[IndexOf(Upper, c)] ELSE c
ToUppercase(c) == IF IsLowercase(c) THEN Upper[IndexOf(Lower, c)] ELSE c
StrToLowercase(s) == [i \in DOMAIN s |-> ToLowercase(s[i])]
StrToUppercase(s) == [i \in DOMAIN s |-> ToUppercase(s[i])]

\* c as u8
Ascii(c) ==
    IF Has(Digits, c) THEN 47 + IndexOf(Digits, c)
    ELSE IF IsUppercase(c) THEN 64 + IndexOf(Upper, c)
    ELSE 96 + IndexOf(Lower, c)

\* str::rfind: the index of the last c of s, 0 when there is none
RFind(s, c) ==
    IF Has(s, c) THEN CHOOSE i \in DOMAIN s : s[i] = c /\ \A j \in (i + 1)..Len(s) : s[j] # c
    ELSE 0

\* bit i of x, bit 0 the least significant
BitOf(x, i) == (x \div (2 ^ i)) % 2

\* the bits of a sequence of w-bit values, the most significant bit of each first
BitsOf(values, w) ==
    [i \in 1..(w * Len(values)) |-> BitOf(values[((i - 1) \div w) + 1], w - 1 - ((i - 1) % w))]

RECURSIVE FromBits(_, _)
FromBits(bits, acc) ==
    IF bits = <<>> THEN acc ELSE FromBits(Tail(bits), 2 * acc + bits[1])

\* the values of consecutive groups of w bits; bits beyond the last whole group are left out
GroupsOf(bits, w) ==
    [g \in 1..(Len(bits) \div w) |-> FromBits(SubSeq(bits, w * (g - 1) + 1, w * g), 0)]

(***************************************************************************)
(* The bech32 crate (BIP-173), the part address.rs calls.                  *)
(***************************************************************************)
CHARSET ==
    <<"q", "p", "z", "r", "y", "9", "x", "8", "g", "f", "2", "t", "v", "d", "w", "0", "s", "3",
      "j", "n", "5", "4", "k", "h", "c", "e", "6", "m", "u", "a", "7", "l">>

SEP == "1"

\* the checksum register is six 5-bit symbols, the most significant first
CheckSymbols == 6
\* the least length bech32::decode accepts
MinBech32Len == 8

\* the five generators 3b6a57b2, 26508e6d, 1ea119fa, 3d4233dd, 2a1462b3
GEN ==
    <<<<29, 22, 20, 21, 29, 18>>, <<19, 5, 1, 3, 19, 13>>, <<15, 10, 2, 6, 15, 26>>,
      <<30, 20, 4, 12, 30, 29>>, <<21, 1, 8, 24, 21, 19>>>>

\* exclusive or of two 5-bit symbols
Xor5 ==
    [x \in 0..(U5 - 1) |-> [y \in 0..(U5 - 1) |->
        FromBits([n \in 1..5 |-> (BitOf(x, 5 - n) + BitOf(y, 5 - n)) % 2], 0)]]

XorSymbols(s, t) == [k \in 1..CheckSymbols |-> Xor5[s[k]][t[k]]]

\* generator i when bit i - 1 of top is set
GenIf(top, i) == IF BitOf(top, i - 1) = 1 THEN GEN[i] ELSE Rep(0, CheckSymbols)

\* what the five bits of the old top symbol add to the register
GenOf ==
    [top \in 0..(U5 - 1) |->
        XorSymbols(GenIf(top, 1), XorSymbols(GenIf(top, 2), XorSymbols(GenIf(top, 3),
            XorSymbols(GenIf(top, 4), GenIf(top, 5)))))]

\* one round of polymod: chk = ((chk & 0x1ffffff) << 5) ^ v, then the
\* generators of the bits of the old top symbol
PolymodStep(chk, v) ==
    <<Xor5[chk[2]][GenOf[chk[1]][1]], Xor5[chk[3]][GenOf[chk[1]][2]],
      Xor5[chk[4]][GenOf[chk[1]][3]], Xor5[chk[5]][GenOf[chk[1]][4]],
      Xor5[chk[6]][GenOf[chk[1]][5]], Xor5[v][GenOf[chk[1]][6]]>>

\* polymod, from round i on; the register is a value before each round
RECURSIVE Polymod(_, _, _)
Polymod(chk, values, i) ==
    IF Len(chk) # CheckSymbols \/ i > Len(values) THEN chk
    ELSE Polymod(PolymodStep(chk, values[i]), values, i + 1)

PolymodOne == <<0, 0, 0, 0, 0, 1>>

\* hrp_expand
HrpExpand(hrp) ==
    [i \in DOMAIN hrp |-> Ascii(hrp[i]) \div U5] \o <<0>> \o [i \in DOMAIN hrp |-> Ascii(hrp[i]) % U5]

\* polymod ^ 1
XorOne(pm) == [pm EXCEPT ![CheckSymbols] = Xor5[pm[CheckSymbols]][1]]

\* create_checksum
CreateChecksum(hrp, data) ==
    XorOne(Polymod(PolymodOne, HrpExpand(hrp) \o data \o Rep(0, CheckSymbols), 1))

\* verify_checksum
VerifyChecksum(hrp, data) == Polymod(PolymodOne, HrpExpand(hrp) \o data, 1) = PolymodOne

\* Bech32Writer: the hrp, the separator, the characters of the data, and on
\* finalize those of the checksum
Bech32Write(hrp, data) ==
    hrp \o <<SEP>> \o [i \in DOMAIN data |-> CHARSET[data[i] + 1]]
        \o [i \in 1..CheckSymbols |-> CHARSET[CreateChecksum(hrp, data)[i] + 1]]

\* ToBase32::write_base32: 8-bit to 5-bit groups, the last one padded with zero bits
ToBase32(bytes) ==
    LET bits == BitsOf(bytes, 8)
    IN  GroupsOf(bits \o Rep(0, (5 - (Len(bits) % 5)) % 5), 5)

\* FromBase32::from_base32: 5-bit to 8-bit groups; the bits left over must be
\* fewer than five and all zero
FromBase32Of(bits) ==
    LET left == Drop(bits, 8 * (Len(bits) \div 8))
    IN  IF Len(left) >= 5 \/ \E i \in DOMAIN left : left[i] = 1
        THEN AErr("Bech32", "InvalidPadding")
        ELSE AOk(GroupsOf(bits, 8))

FromBase32(data) == FromBase32Of(BitsOf(data, 5))

\* the case the characters of s have between them: "None", "Lower", "Upper" or "Mixed"
CaseOf(s) ==
    IF \E i \in DOMAIN s : IsLowercase(s[i])
    THEN IF \E i \in DOMAIN s : IsUppercase(s[i]) THEN "Mixed" ELSE "Lower"
    ELSE IF \E i \in DOMAIN s : IsUppercase(s[i]) THEN "Upper" ELSE "None"

\* split_and_decode after the split: case, character set, checksum
Bech32DecodeParts(raw_hrp, raw_data) ==
    IF Len(raw_hrp) = 0 \/ Len(raw_data) < CheckSymbols THEN AErr("Bech32", "InvalidLength")
    ELSE IF CaseOf(raw_hrp) = "Mixed" THEN AErr("Bech32", "MixedCase")
    ELSE IF \E i \in DOMAIN raw_data :
                /\ ~Has(CHARSET, ToLowercase(raw_data[i]))
                /\ CaseOf(raw_hrp \o Take(raw_data, i)) # "Mixed"
         THEN AErr("Bech32", "InvalidChar")
    ELSE IF CaseOf(raw_hrp \o raw_data) = "Mixed" THEN AErr("Bech32", "MixedCase")
    ELSE IF ~VerifyChecksum(StrToLowercase(raw_hrp),
                            [i \in DOMAIN raw_data |-> IndexOf(CHARSET, ToLowercase(raw_data[i])) - 1])
         THEN AErr("Bech32", "InvalidChecksum")
    ELSE AOk([hrp |-> StrToLowercase(raw_hrp),
              data |-> [i \in 1..(Len(raw_data) - CheckSymbols) |->
                            IndexOf(CHARSET, ToLowercase(raw_data[i])) - 1]])

\* bech32::decode
Bech32Decode(s) ==
    IF Len(s) < MinBech32Len THEN AErr("Bech32", "InvalidLength")
    ELSE IF RFind(s, SEP) = 0 THEN AErr("Bech32", "MissingSeparator")
    ELSE Bech32DecodeParts(Take(s, RFind(s, SEP) - 1), Drop(s, RFind(s, SEP)))

(***************************************************************************)
(* util/base58.rs, the part address.rs calls.                              *)
(***************************************************************************)
BASE58_CHARS ==
    <<"1", "2", "3", "4", "5", "6", "7", "8", "9", "A", "B", "C", "D", "E", "F", "G", "H", "J",
      "K", "L", "M", "N", "P", "Q", "R", "S", "T", "U", "V", "W", "X", "Y", "Z", "a", "b", "c",
      "d", "e", "f", "g", "h", "i", "j", "k", "m", "n", "o", "p", "q", "r", "s", "t", "u", "v",
      "w", "x", "y", "z">>

\* the digits of a carry, least significant first
RECURSIVE CarryDigits(_, _)
CarryDigits(carry, base) ==
    IF carry = 0 THEN <<>> ELSE <<carry % base>> \o CarryDigits(carry \div base, base)

\* X = X * mul + carry on the digits of X in the given base, least
\* significant first; out holds the digits already done
RECURSIVE MulAdd(_, _, _, _, _)
MulAdd(digits, mul, carry, base, out) ==
    IF Len(out) = Len(digits) THEN out \o CarryDigits(carry, base)
    ELSE MulAdd(digits, mul, (digits[Len(out) + 1] * mul + carry) \div base, base,
                Append(out, (digits[Len(out) + 1] * mul + carry) % base))

\* the number whose digits in base `from`, most significant first, are the
\* first n of `values`, as digits in base `to`, least significant first
RECURSIVE Rebase(_, _, _, _)
Rebase(values, n, from, to) ==
    IF n = 0 THEN <<>> ELSE MulAdd(Rebase(values, n - 1, from, to), from, values[n], to, <<>>)

\* how many of the leading elements of s are z
RECURSIVE LeadingCount(_, _)
LeadingCount(s, z) == IF s = <<>> \/ s[1] # z THEN 0 ELSE 1 + LeadingCount(Tail(s), z)

\* base58::encode_slice: a "1" for each leading zero byte, then the number in base 58
Base58Encode(data) ==
    LET digits == Rebase(data, Len(data), U8, Len(BASE58_CHARS))
    IN  Rep(BASE58_CHARS[1], LeadingCount(data, 0))
            \o [i \in DOMAIN digits |-> BASE58_CHARS[digits[Len(digits) + 1 - i] + 1]]

\* base58::from: a zero byte for each leading "1", then the number in base 256
Base58From(s) ==
    IF \E i \in DOMAIN s : ~Has(BASE58_CHARS, s[i]) THEN AErr("Base58", "BadByte")
    ELSE LET bytes == Rebase([i \in DOMAIN s |-> IndexOf(BASE58_CHARS, s[i]) - 1], Len(s),
                             Len(BASE58_CHARS), U8)
         IN  AOk(Rep(0, LeadingCount(s, BASE58_CHARS[1]))
                     \o [i \in DOMAIN bytes |-> bytes[Len(bytes) + 1 - i]])

\* the four checksum bytes of base58check
ChecksumLen == 4
Base58Checksum(data) == Take(Sha256d(data), ChecksumLen)

\* base58::check_encode_slice
Base58CheckEncode(data) == Base58Encode(data \o Base58Checksum(data))

\* base58::from_check, after from
Base58Checked(ret) ==
    IF ~IsOk(ret) THEN ret
    ELSE IF Len(Unwrap(ret.val)) < ChecksumLen THEN AErr("Base58", "TooShort")
    ELSE IF Base58Checksum(Take(Unwrap(ret.val), Len(Unwrap(ret.val)) - ChecksumLen))
                # Drop(Unwrap(ret.val), Len(Unwrap(ret.val)) - ChecksumLen)
         THEN AErr("Base58", "BadChecksum")
    ELSE AOk(Take(Unwrap(ret.val), Len(Unwrap(ret.val)) - ChecksumLen))

\* base58::from_check
Base58FromCheck(s) == Base58Checked(Base58From(s))

(***************************************************************************)
(* Display and FromStr for Address.                                        *)
(***************************************************************************)
\* the version byte of a base58 address, Display lines 546-549 and 555-558
Base58Prefix(variant, network) ==
    IF variant = "PubkeyHash"
    THEN (IF network = "Bitcoin" THEN 0 ELSE 111)
    ELSE (IF network = "Bitcoin" THEN 5 ELSE 196)

\* the human-readable part of a segwit address, Display lines 566-570
Hrp(network) ==
    CASE network = "Bitcoin" -> <<"b", "c">>
      [] network \in {"Testnet", "Signet"} -> <<"t", "b">>
      [] network = "Regtest" -> <<"b", "c", "r", "t">>

\* <Address as Display>::fmt without the alternate flag, which is to_string()
AddressToString(address) ==
    IF address.payload.variant = "WitnessProgram"
    THEN Bech32Write(Hrp(address.network),
                     <<Unwrap(WitnessVersionIntoU5(address.payload.version).val)>>
                         \o ToBase32(address.payload.program))
    ELSE Base58CheckEncode(<<Base58Prefix(address.payload.variant, address.network)>>
                               \o address.payload.hash)

\* the least and the greatest length of a witness program, from_str line 632
MinProgramLen == 2
MaxProgramLen == 40

\* find_bech32_prefix
FindBech32Prefix(s) == IF RFind(s, SEP) = 0 THEN s ELSE Take(s, RFind(s, SEP) - 1)

\* the match on the prefix taking "tb" for signet
Bech32NetworkTbSignet(prefix) ==
    IF prefix \in {<<"b", "c">>, <<"B", "C">>} THEN Some("Bitcoin")
    ELSE IF prefix \in {<<"t", "b">>, <<"T", "B">>} THEN Some("Signet")
    ELSE IF prefix \in {<<"b", "c", "r", "t">>, <<"B", "C", "R", "T">>} THEN Some("Regtest")
    ELSE None

\* from_str, the match on the prefix
Bech32Network(prefix) ==
    IF prefix \in {<<"b", "c">>, <<"B", "C">>} THEN Some("Bitcoin")
    ELSE IF prefix \in {<<"t", "b">>, <<"T", "B">>} THEN Some("Testnet")
    ELSE IF prefix \in {<<"b", "c", "r", "t">>, <<"B", "C", "R", "T">>} THEN Some("Regtest")
    ELSE None

\* from_str, the length checks on the program and the result
FromStrProgram(network, version, program) ==
    IF ~IsOk(program) THEN program
    ELSE IF Len(Unwrap(program.val)) < MinProgramLen \/ Len(Unwrap(program.val)) > MaxProgramLen
         THEN AErr("InvalidWitnessProgramLength", Len(Unwrap(program.val)))
    ELSE IF version = "V0" /\ Len(Unwrap(program.val)) # 20 /\ Len(Unwrap(program.val)) # 32
         THEN AErr("InvalidSegwitV0ProgramLength", Len(Unwrap(program.val)))
    ELSE AOk(Address(WitnessProgram(version, Unwrap(program.val)), network))

\* from_str, the version and the program of a non-empty payload
FromStrPayload(network, version, p5) ==
    IF ~IsOk(version) THEN version
    ELSE FromStrProgram(network, Unwrap(version.val), FromBase32(p5))

\* from_str, the bech32 branch
FromStrBech32(network, decoded) ==
    IF ~IsOk(decoded) THEN decoded
    ELSE IF Unwrap(decoded.val).data = <<>> THEN AErr("EmptyBech32Payload", <<>>)
    ELSE FromStrPayload(network, WitnessVersionFromU5(Unwrap(decoded.val).data[1]),
                        Tail(Unwrap(decoded.val).data))

\* from_str, the base58 branch after from_check
FromStrBase58Data(data) ==
    IF ~IsOk(data) THEN data
    ELSE IF Len(Unwrap(data.val)) # 21 THEN AErr("Base58", "InvalidLength")
    ELSE CASE Unwrap(data.val)[1] = 0 ->
                  AOk(Address(PubkeyHash(Tail(Unwrap(data.val))), "Bitcoin"))
           [] Unwrap(data.val)[1] = 5 ->
                  AOk(Address(ScriptHash(Tail(Unwrap(data.val))), "Bitcoin"))
           [] Unwrap(data.val)[1] = 111 ->
                  AOk(Address(PubkeyHash(Tail(Unwrap(data.val))), "Testnet"))
           [] Unwrap(data.val)[1] = 196 ->
                  AOk(Address(ScriptHash(Tail(Unwrap(data.val))), "Testnet"))
           [] OTHER -> AErr("Base58", "InvalidVersion")

\* from_str, the base58 branch
FromStrBase58(s) ==
    IF Len(s) > 50 THEN AErr("Base58", "InvalidLength")
    ELSE FromStrBase58Data(Base58FromCheck(s))

\* the bech32 branch handing a string it refuses on to the base58 branch
FromStrFallThrough(s) ==
    IF IsSome(Bech32Network(FindBech32Prefix(s)))
           /\ IsOk(FromStrBech32(Unwrap(Bech32Network(FindBech32Prefix(s))), Bech32Decode(s)))
    THEN FromStrBech32(Unwrap(Bech32Network(FindBech32Prefix(s))), Bech32Decode(s))
    ELSE FromStrBase58(s)

\* <Address as FromStr>::from_str
AddressFromStr(s) ==
    IF IsSome(Bech32Network(FindBech32Prefix(s)))
    THEN FromStrBech32(Unwrap(Bech32Network(FindBech32Prefix(s))), Bech32Decode(s))
    ELSE FromStrBase58(s)

(***************************************************************************)
(* The addresses the calls are made on: both hash payloads, one of them    *)
(* with leading zero bytes, and witness programs of every version and of   *)
(* every length from one below the least to one above the greatest length  *)
(* FromStr accepts, on each of the four networks.                          *)
(***************************************************************************)
HashA == [i \in 1..20 |-> (11 * i + 3) % U8]
HashZ == <<0, 0>> \o [i \in 1..18 |-> (U8 - i)]

Program(n) == [i \in 1..n |-> (37 * i + 5 * n) % U8]

Payloads ==
    {PubkeyHash(h) : h \in {HashA, HashZ}} \cup {ScriptHash(h) : h \in {HashA, HashZ}}
        \cup {WitnessProgram(v, Program(n)) :
                  v \in WitnessVersion, n \in (MinProgramLen - 1)..(MaxProgramLen + 1)}

Addresses == {Address(p, n) : p \in Payloads, n \in Network}

\* the lengths of the programs of the addresses put into strings: the least
\* and the greatest length and the ones next to them, the two lengths of
\* version 0 and one next to them, and every number of padding bits
StringProgramLens ==
    {MinProgramLen - 1, MinProgramLen, MinProgramLen + 1, MinProgramLen + 2, 20, 32, 33,
     MaxProgramLen, MaxProgramLen + 1}

StringAddresses ==
    {a \in Addresses :
        a.payload.variant = "WitnessProgram" => Len(a.payload.program) \in StringProgramLens}

\* scripts that are no scriptPubkey of an address: a version opcode beyond
\* OP_PUSHNUM_16, OP_1NEGATE as the version, a push that is longer than the
\* script, a P2PKH script cut short, the empty script
BadScripts ==
    {<<OP_PUSHNUM_16 + 1>> \o PushSlice(Program(20)),
     <<OP_PUSHNUM_1 - 2>> \o PushSlice(Program(20)),
     <<OP_PUSHNUM_1, 21>> \o Program(20),
     Take(NewP2pkh(HashA), 24),
     <<>>}

Scripts == {PayloadScriptPubkey(p) : p \in Payloads} \cup BadScripts

\* strings that are not the string of an address in range: a version of 17
\* and of 31, with a program in range and with one too long; no payload at
\* all; a version alone; padding of five bits, and padding that is not zero;
\* a last character changed; one character in the other case; a prefix
\* from_str does not know; base58 strings with a version byte that is none
\* of the four, with 20 and with 22 bytes of data, with the last character
\* changed, and of more than 50 characters
BadStrings ==
    {Bech32Write(Hrp("Bitcoin"), <<17>> \o ToBase32(Program(20))),
     Bech32Write(Hrp("Regtest"), <<31>> \o ToBase32(Program(MaxProgramLen + 1))),
     Bech32Write(Hrp("Testnet"), <<17>> \o ToBase32(Program(2)) \o <<1>>),
     Bech32Write(Hrp("Bitcoin"), <<>>),
     Bech32Write(Hrp("Testnet"), <<1>>),
     Bech32Write(Hrp("Bitcoin"), <<1>> \o ToBase32(Program(20)) \o <<0>>),
     Bech32Write(Hrp("Bitcoin"), <<0, 1>>),
     Bech32Write(Hrp("Bitcoin"), <<1>> \o Rep(0, 31) \o <<1>>),
     Take(Bech32Write(Hrp("Bitcoin"), <<0>> \o ToBase32(Program(20))), 41) \o <<"q">>,
     <<"b", "C">> \o Drop(Bech32Write(Hrp("Bitcoin"), <<0>> \o ToBase32(Program(20))), 2),
     Bech32Write(<<"t", "c">>, <<0>> \o ToBase32(Program(20))),
     Base58CheckEncode(<<1>> \o HashA),
     Base58CheckEncode(<<0>> \o Tail(HashA)),
     Base58CheckEncode(<<5, 0>> \o HashA),
     Take(Base58CheckEncode(<<0>> \o HashA), 20) \o <<"z">>,
     Rep("z", 51)}

Strings ==
    {AddressToString(a) : a \in StringAddresses}
        \cup {StrToUppercase(AddressToString(a)) :
                  a \in {b \in StringAddresses : b.payload.variant = "WitnessProgram"
                                              /\ Len(b.payload.program) \in {2, 20, 41}}}
        \cup BadStrings

(***************************************************************************)
(* The address state machine: one call of a function of util/address.rs    *)
(* on an argument drawn from a bounded set; adr keeps the call, its        *)
(* argument and what it returned.  The PSBT maps take no part.             *)
(***************************************************************************)
AddrCall(op, arg, res) == adr' = [pc |-> "done", op |-> op, arg |-> arg, res |-> res]

PsbtUnchanged ==
    UNCHANGED <<input, in_last, in_calls, in_keys, global, g_last, g_calls, g_keys, dec,
                std_eof_seek, mrg>>

\* WitnessVersion::from_opcode(opcodes::All::from(opcode))
WvFromOpcode(opcode) ==
    /\ adr.pc = "idle"
    /\ AddrCall("from_opcode", opcode, WitnessVersionFromOpcode(opcode))
    /\ PsbtUnchanged

\* WitnessVersion::from_no(no)
WvFromNo(no) ==
    /\ adr.pc = "idle"
    /\ AddrCall("from_no", no, WitnessVersionFromNo(no))
    /\ PsbtUnchanged

\* version.into_no()
WvIntoNo(version) ==
    /\ adr.pc = "idle"
    /\ AddrCall("into_no", version, WitnessVersionIntoNo(version))
    /\ PsbtUnchanged

\* bech32::u5::from(version)
WvIntoU5(version) ==
    /\ adr.pc = "idle"
    /\ AddrCall("into_u5", version, WitnessVersionIntoU5(version))
    /\ PsbtUnchanged

\* opcodes::All::from(version)
WvIntoOpcode(version) ==
    /\ adr.pc = "idle"
    /\ AddrCall("into_opcode", version, WitnessVersionIntoOpcode(version))
    /\ PsbtUnchanged

\* address.script_pubkey()
AScriptPubkey(address) ==
    /\ adr.pc = "idle"
    /\ AddrCall("script_pubkey", address, AddressScriptPubkey(address))
    /\ PsbtUnchanged

\* Address::from_script(script, network)
AFromScript(script, network) ==
    /\ adr.pc = "idle"
    /\ AddrCall("from_script", [script |-> script, network |-> network],
                AddressFromScript(script, network))
    /\ PsbtUnchanged

\* address.to_string()
AToString(address) ==
    /\ adr.pc = "idle"
    /\ AddrCall("to_string", address, AddressToString(address))
    /\ PsbtUnchanged

\* Address::from_str(s)
AFromStr(s) ==
    /\ adr.pc = "idle"
    /\ AddrCall("from_str", s, AddressFromStr(s))
    /\ PsbtUnchanged

AddressNext ==
    \/ \E opcode \in 0..(U8 - 1) : WvFromOpcode(opcode)
    \/ \E no \in 0..(U8 - 1) : WvFromNo(no)
    \/ \E version \in WitnessVersion : WvIntoNo(version)
    \/ \E version \in WitnessVersion : WvIntoU5(version)
    \/ \E version \in WitnessVersion : WvIntoOpcode(version)
    \/ \E address \in Addresses : AScriptPubkey(address)
    \/ \E script \in Scripts, network \in Network : AFromScript(script, network)
    \/ \E address \in StringAddresses : AToString(address)
    \/ \E s \in Strings : AFromStr(s)

AddressSpec == Init /\ [][AddressNext]_vars

C23_WitnessVersion ==
    /\ adr.op = "from_opcode"
    /\ adr.arg = OP_PUSHNUM_16
    /\ adr.res = AOk("V16")

\* C30: for every version v of V0..V16, from_opcode(opcodes::All::from(v)) and
\* from_no(v.into_no()) are Ok(v); the opcode byte of V1..V16 lies in
\* OP_PUSHNUM_1..OP_PUSHNUM_16 and neither u8 operation making it leaves
\* 0..255; the conversion to a bech32 u5 does not panic; from_no(n) is
\* InvalidWitnessVersion(n) for every n > 16.
C30_WitnessVersionInverse ==
    /\ adr.op = "into_opcode" =>
           /\ WitnessVersionFromOpcode(adr.res) = AOk(adr.arg)
           /\ adr.arg # "V0" =>
                  /\ adr.res \in OP_PUSHNUM_1..OP_PUSHNUM_16
                  /\ \A i \in 1..2 : U8Fits(WitnessVersionIntoOpcodeSteps(adr.arg)[i])
    /\ adr.op = "into_no" =>
           /\ adr.res \in 0..16
           /\ WitnessVersionFromNo(adr.res) = AOk(adr.arg)
    /\ adr.op = "into_u5" => IsOk(adr.res) /\ adr.res.val = <<WitnessVersionIntoNo(adr.arg)>>
    /\ (adr.op = "from_no" /\ adr.arg > 16) => adr.res = AErr("InvalidWitnessVersion", adr.arg)

\* V16 was turned into its opcode, OP_PUSHNUM_16
C30_Witness ==
    /\ adr.op = "into_opcode"
    /\ adr.arg = "V16"
    /\ adr.res = OP_PUSHNUM_16

\* from_no was given 17 and refused it
C30_WitnessRefused ==
    /\ adr.op = "from_no"
    /\ adr.arg = 17
    /\ adr.res.kind = "InvalidWitnessVersion"

\* a payload of C22: either hash, or a witness program of 2..=40 bytes of any version
ScriptRoundTripPayload(payload) ==
    \/ payload.variant \in {"PubkeyHash", "ScriptHash"}
    \/ /\ payload.variant = "WitnessProgram"
       /\ payload.version \in WitnessVersion
       /\ Len(payload.program) \in MinProgramLen..MaxProgramLen

\* C22: for every Address whose payload is a PubkeyHash, a ScriptHash or a
\* WitnessProgram of any version with a 2..=40 byte program,
\* Address::from_script(&addr.script_pubkey(), addr.network) is Some of an
\* Address equal to addr in payload and network.
C22_ScriptRoundTrip ==
    (adr.op = "script_pubkey" /\ ScriptRoundTripPayload(adr.arg.payload)) =>
        LET back == AddressFromScript(adr.res, adr.arg.network)
        IN  /\ IsSome(back)
            /\ Unwrap(back).payload = adr.arg.payload
            /\ Unwrap(back).network = adr.arg.network

\* the script of a version 0 program of two bytes on signet was made
C22_Witness ==
    /\ adr.op = "script_pubkey"
    /\ adr.arg = Address(WitnessProgram("V0", Program(2)), "Signet")
    /\ adr.res = <<OP_PUSHBYTES_0, 2>> \o Program(2)

\* the script of a P2SH address was made
C22_WitnessScriptHash ==
    /\ adr.op = "script_pubkey"
    /\ adr.arg.payload = ScriptHash(HashZ)
    /\ Len(adr.res) = 23

\* a payload of C21: either hash, or a witness program of 2..=40 bytes, of 20
\* or 32 bytes when its version is 0
StringRoundTripPayload(payload) ==
    \/ payload.variant \in {"PubkeyHash", "ScriptHash"}
    \/ /\ payload.variant = "WitnessProgram"
       /\ Len(payload.program) \in MinProgramLen..MaxProgramLen
       /\ payload.version = "V0" => Len(payload.program) \in {20, 32}

\* C21 as claimed: for every Address on any of the four networks with such a
\* payload, Address::from_str(addr.to_string()) is Ok of an Address equal to
\* addr in payload and in network.
C21_StringRoundTrip ==
    (adr.op = "to_string" /\ StringRoundTripPayload(adr.arg.payload)) =>
        AddressFromStr(adr.res) = AOk(adr.arg)

\* the network from_str gives back: Signet comes back as Testnet, and so
\* does Regtest for the two base58 payloads
NetworkRead(address) ==
    IF address.network = "Signet" THEN "Testnet"
    ELSE IF address.network = "Regtest" /\ address.payload.variant # "WitnessProgram" THEN "Testnet"
    ELSE address.network

\* C21 as the code has it: for every Address with such a payload,
\* Address::from_str(addr.to_string()) is Ok of an Address with the payload of
\* addr; its network is that of addr on Bitcoin and Testnet, and on Regtest
\* for a witness program, and is Testnet otherwise.
C21_StringRoundTripUpToNetwork ==
    (adr.op = "to_string" /\ StringRoundTripPayload(adr.arg.payload)) =>
        AddressFromStr(adr.res) = AOk(Address(adr.arg.payload, NetworkRead(adr.arg)))

\* the string of a version 16 program of 40 bytes on testnet was made
C21_Witness ==
    /\ adr.op = "to_string"
    /\ adr.arg = Address(WitnessProgram("V16", Program(MaxProgramLen)), "Testnet")
    /\ Take(adr.res, 3) = <<"t", "b", "1">>

\* the string of a P2PKH address on signet was made
C21_WitnessSignet ==
    /\ adr.op = "to_string"
    /\ adr.arg = Address(PubkeyHash(HashA), "Signet")
    /\ Len(adr.res) > 0

\* what C24 asks of from_str(s) = r when the prefix of s is a recognized one:
\* no base58 outcome; and, decoded being what bech32::decode made of s, when that
\* is Ok the first failing test in the order empty payload, version above 16,
\* program length outside 2..=40, version 0 program of neither 20 nor 32 bytes
\* gives the error, where the program is what from_base32 made of the data
SegwitChecked(r, decoded) ==
    /\ r.kind # "Base58"
    /\ IsOk(r) => Unwrap(r.val).payload.variant = "WitnessProgram"
    /\ IsOk(decoded) =>
          IF Unwrap(decoded.val).data = <<>> THEN r = AErr("EmptyBech32Payload", <<>>)
          ELSE IF Unwrap(decoded.val).data[1] > 16
               THEN r = AErr("InvalidWitnessVersion", Unwrap(decoded.val).data[1])
          ELSE LET program == FromBase32(Tail(Unwrap(decoded.val).data))
               IN  IsOk(program) =>
                       IF Len(Unwrap(program.val)) \notin MinProgramLen..MaxProgramLen
                       THEN r = AErr("InvalidWitnessProgramLength", Len(Unwrap(program.val)))
                       ELSE IF Unwrap(decoded.val).data[1] = 0 /\ Len(Unwrap(program.val)) \notin {20, 32}
                            THEN r = AErr("InvalidSegwitV0ProgramLength", Len(Unwrap(program.val)))
                            ELSE IsOk(r)

\* C24: every segwit Address that from_str returns as Ok has a version of
\* V0..V16 and a program of 2..=40 bytes, of 20 or 32 bytes when the version is
\* V0; a bech32 string with the prefix bc, tb or bcrt that is not such an
\* address is refused with EmptyBech32Payload, InvalidWitnessVersion,
\* InvalidWitnessProgramLength or InvalidSegwitV0ProgramLength, tested in this
\* order, and is never tried as base58.
C24_SegwitChecked ==
    adr.op = "from_str" =>
        /\ (IsOk(adr.res) /\ Unwrap(adr.res.val).payload.variant = "WitnessProgram") =>
               /\ Unwrap(adr.res.val).payload.version \in WitnessVersion
               /\ Len(Unwrap(adr.res.val).payload.program) \in MinProgramLen..MaxProgramLen
               /\ Unwrap(adr.res.val).payload.version = "V0" =>
                      Len(Unwrap(adr.res.val).payload.program) \in {20, 32}
        /\ IsSome(Bech32Network(FindBech32Prefix(adr.arg))) =>
               SegwitChecked(adr.res, Bech32Decode(adr.arg))

\* a string with version 17 and a program of 41 bytes was refused for its version
C24_Witness ==
    /\ adr.op = "from_str"
    /\ adr.arg = Bech32Write(Hrp("Regtest"), <<31>> \o ToBase32(Program(MaxProgramLen + 1)))
    /\ adr.res = AErr("InvalidWitnessVersion", 31)

\* a version 0 program of 41 bytes was refused for its length, not as version 0
C24_WitnessLength ==
    /\ adr.op = "from_str"
    /\ adr.arg = AddressToString(Address(WitnessProgram("V0", Program(MaxProgramLen + 1)), "Bitcoin"))
    /\ adr.res = AErr("InvalidWitnessProgramLength", MaxProgramLen + 1)

\* a version 0 program of 2 bytes was refused
C24_WitnessV0 ==
    /\ adr.op = "from_str"
    /\ adr.res = AErr("InvalidSegwitV0ProgramLength", MinProgramLen)

\* a string without a payload was refused
C24_WitnessEmpty ==
    /\ adr.op = "from_str"
    /\ adr.res.kind = "EmptyBech32Payload"

\* an upper case string was accepted
C24_WitnessAccepted ==
    /\ adr.op = "from_str"
    /\ adr.arg = StrToUppercase(AddressToString(Address(WitnessProgram("V16", Program(2)), "Regtest")))
    /\ adr.res = AOk(Address(WitnessProgram("V16", Program(2)), "Regtest"))

\* a string with padding that is not zero was refused by from_base32
C24_WitnessPadding ==
    /\ adr.op = "from_str"
    /\ IsSome(Bech32Network(FindBech32Prefix(adr.arg)))
    /\ adr.res = AErr("Bech32", "InvalidPadding")

\* no two pairs of the sequence have the same raw key (type tag and key data)
KeysDistinct(pairs) ==
    \A i, j \in DOMAIN pairs : i # j => pairs[i].key # pairs[j].key

\* C25: the unknown map of an Input reached from Input::default() by
\* insert_pair holds no key with a type tag of 0x00-0x08, 0x0A-0x0D or 0xFC;
\* the unknown map of a Global made by decode or reached by insert_pair holds
\* no key with a type tag of 0x00, 0x01, 0xFB or 0xFC; and get_pairs of either
\* map emits no two pairs with the same (type_tag, key_data).
C25_KnownTagsNotUnknown ==
    /\ \A k \in DOMAIN input.unknown : k.type_value \notin InputArmTags
    /\ KeysDistinct(InputGetPairs(input))
    /\ IsSome(global) =>
           /\ \A k \in DOMAIN Unwrap(global).unknown : k.type_value \notin GlobalKnownTags
           /\ KeysDistinct(GlobalGetPairs(Unwrap(global)))

\* an Input holds an unknown entry, next to a final_script_witness that
\* insert_pair has put into its field
C25_Witness ==
    /\ DOMAIN input.unknown # {}
    /\ IsSome(input.final_script_witness)
    /\ in_calls = 2

\* a decoded Global holds an unknown entry and a proprietary one
C25_WitnessGlobal ==
    /\ dec.pc = "done"
    /\ IsSome(global)
    /\ DOMAIN Unwrap(global).unknown # {}
    /\ DOMAIN Unwrap(global).proprietary # {}

\* every entry (d, v) of the map has H(v) = d
PreimagesConsistent(map, H) == \A d \in DOMAIN map : HashOf(H, map[d]) = d

\* C26: in every Input reached from Input::default() by insert_pair calls,
\* successful or failed, every entry (d, v) of ripemd_preimages,
\* sha256_preimages, hash160_preimages and hash256_preimages has hash(v) = d
\* for the hash function of its map.
C26_PreimagesConsistent ==
    /\ PreimagesConsistent(input.ripemd_preimages, "ripemd160::Hash")
    /\ PreimagesConsistent(input.sha256_preimages, "sha256::Hash")
    /\ PreimagesConsistent(input.hash160_preimages, "hash160::Hash")
    /\ PreimagesConsistent(input.hash256_preimages, "sha256d::Hash")

\* a preimage is stored, and the call after it, with a value that does not
\* hash to its key, was refused
C26_Witness ==
    /\ DOMAIN input.hash160_preimages # {}
    /\ in_calls = 2
    /\ in_last.res.kind = "InvalidPreimageHashPair"

\* two preimages are stored in one map
C26_WitnessTwo == Cardinality(DOMAIN input.ripemd_preimages) = 2

\* the transaction a Global was made with: the one from_unsigned_tx was
\* given, or the one consensus_decode read from the tag 0x00 pair
MadeWith(tx) ==
    /\ dec.pc = "idle" => (g_last.op = "from_unsigned_tx" => g_last.tx = Some(tx))
    /\ dec.pc = "done" => dec.locals.tx = Some(tx)

\* C27: insert_pair never changes the unsigned_tx of a Global: a pair with
\* type tag 0x00, with empty or non-empty key data, fails with DuplicateKey,
\* and across every insert_pair call, with whatever tag and outcome, the
\* unsigned_tx stays the transaction the map was made with.
C27_UnsignedTxKept ==
    /\ [](IsSome(global) => MadeWith(Unwrap(global).unsigned_tx))
    /\ [][(g_calls' = g_calls + 1 /\ g_last'.op = "insert_pair")
             => /\ IsSome(global')
                /\ Unwrap(global').unsigned_tx = Unwrap(global).unsigned_tx
                /\ g_last'.pair.key.type_value = PSBT_GLOBAL_UNSIGNED_TX
                       => /\ g_last'.res = Error("DuplicateKey", g_last'.pair.key)
                          /\ global' = global]_vars

\* a pair with tag 0x00 and non-empty key data, carrying another
\* transaction than the map's own, has been refused with DuplicateKey after
\* an earlier call had been accepted
C27_Witness ==
    /\ IsSome(global)
    /\ g_last.op = "insert_pair"
    /\ g_last.pair.key.type_value = PSBT_GLOBAL_UNSIGNED_TX
    /\ g_last.pair.key.key # <<>>
    /\ g_last.res.kind = "DuplicateKey"
    /\ g_keys # {}
    /\ g_last.pair.value # WriteUnsignedTx(Unwrap(global).unsigned_tx)

\* the same with empty key data
C27_WitnessEmptyKey ==
    /\ IsSome(global)
    /\ g_last.op = "insert_pair"
    /\ g_last.pair.key = [type_value |-> PSBT_GLOBAL_UNSIGNED_TX, key |-> <<>>]
    /\ g_last.res.kind = "DuplicateKey"
    /\ g_last.pair.value # WriteUnsignedTx(Unwrap(global).unsigned_tx)

\* the stream without its pair i, the others in their order
Without(stream, i) ==
    [j \in 1..(Len(stream) - 1) |-> IF j < i THEN stream[j] ELSE stream[j + 1]]

\* insert_pair on each pair in turn, on the map from_unsigned_tx returned
InsertInto(rv, pairs) ==
    IF ~rv.ok THEN rv
    ELSE LET r == GlobalInsertAll(rv.val, pairs)
         IN  IF IsOk(r.res) THEN POk(r.map, <<>>) ELSE PErr(r.res)

\* the pairs of the stream that can stand for its unsigned transaction
TxPairs(stream) ==
    {i \in DOMAIN stream : stream[i].key = Key(PSBT_GLOBAL_UNSIGNED_TX, <<>>)}

\* the first of them
FirstTxPair(stream) == CHOOSE i \in TxPairs(stream) : \A j \in TxPairs(stream) : i <= j

\* the map built by hand from a pair stream: from_unsigned_tx on the
\* transaction of the stream's tag 0x00 pair, then insert_pair on each of
\* the other pairs in stream order
BuildFromPairs(stream) ==
    LET i == FirstTxPair(stream)
        tx == ReadUnsignedTx(stream[i].value)
    IN  IF ~tx.ok THEN PErr(tx.err)
        ELSE InsertInto(GlobalFromUnsignedTx(tx.val), Without(stream, i))

\* the decoder has returned, after the marker or on a pair, from a stream
\* that holds a tag 0x00 pair with empty key data, and the map it returned was not touched since
DecodedStreamWithTx ==
    /\ dec.pc = "done"
    /\ dec.ended \in {"marker", "pair"}
    /\ g_last.op = "none"
    /\ TxPairs(dec.stream) # {}

\* the outcome r is the decoder's: the same map, or an error of the same kind
SameMapOrKind(r) ==
    IF IsOk(dec.res) THEN r.ok /\ Some(r.val) = global
    ELSE ~r.ok /\ r.err.kind = dec.res.kind

\* C28: decoding a Global pair stream gives the same outcome (the same map,
\* or an error of the same kind) as from_unsigned_tx on the stream's tag
\* 0x00 pair followed by insert_pair on each of the other pairs in stream
\* order.
C28_DecodeAgreesWithInsert ==
    DecodedStreamWithTx => SameMapOrKind(BuildFromPairs(dec.stream))

\* pair i of the stream reaches arms of consensus_decode and of insert_pair
\* that are written alike: a tag 0x00 pair with empty key data; a version
\* pair that is the first of the stream and not short of four bytes, or one
\* with key data; an xpub pair with a well-formed key seen for the first
\* time and a value of a fingerprint and whole child indexes; a proprietary
\* or unknown pair
ArmsAlike(stream, i) ==
    LET p == stream[i]
        t == p.key.type_value
    IN  CASE t = PSBT_GLOBAL_UNSIGNED_TX -> p.key.key = <<>>
          [] t = PSBT_GLOBAL_VERSION ->
               \/ p.key.key # <<>>
               \/ /\ Len(p.value) >= 4
                  /\ \A j \in 1..(i - 1) : stream[j].key.type_value # PSBT_GLOBAL_VERSION
          [] t = PSBT_GLOBAL_XPUB ->
               /\ p.key.key # <<>>
               /\ DeserializeXpub(p.key.key).ok
               /\ Len(p.value) >= FingerprintLen
               /\ (Len(p.value) - FingerprintLen) % 4 = 0
               /\ \A j \in 1..(i - 1) : stream[j].key # p.key
          [] OTHER -> TRUE

\* from_unsigned_tx accepts the transaction of the stream's tag 0x00 pair
TxAccepted(stream) ==
    LET tx == ReadUnsignedTx(stream[FirstTxPair(stream)].value)
    IN  tx.ok => GlobalFromUnsignedTx(tx.val).ok

\* where the two functions do agree: on streams all of whose pairs reach
\* arms written alike, when no pair is refused after a transaction that
\* from_unsigned_tx refuses (the decoder looks at the transaction after the
\* marker only, the hand-built map starts with it)
C28_AgreeWhereArmsAlike ==
    (/\ DecodedStreamWithTx
     /\ \A i \in DOMAIN dec.stream : ArmsAlike(dec.stream, i)
     /\ dec.ended = "marker" \/ TxAccepted(dec.stream))
        => SameMapOrKind(BuildFromPairs(dec.stream))

\* a stream with two version pairs after the transaction: the decoder
\* refused the second with DuplicateKey, insert_pair takes both
C28_VersionRepeated ==
    /\ DecodedStreamWithTx
    /\ Len(dec.stream) = 3
    /\ dec.stream[2] = Pair(PSBT_GLOBAL_VERSION, <<>>, LE32(1))
    /\ dec.stream[3] = Pair(PSBT_GLOBAL_VERSION, <<>>, LE32(2))
    /\ dec.res.kind = "DuplicateKey"
    /\ BuildFromPairs(dec.stream).ok
    /\ BuildFromPairs(dec.stream).val.version = 2

\* a stream with the same xpub pair twice: the decoder answers ParseFailed,
\* insert_pair DuplicateKey
C28_XpubRepeated ==
    /\ DecodedStreamWithTx
    /\ Len(dec.stream) = 3
    /\ dec.stream[2].key = Key(PSBT_GLOBAL_XPUB, XpubA)
    /\ dec.stream[3].key = Key(PSBT_GLOBAL_XPUB, XpubA)
    /\ dec.res = Error("ParseFailed", "Repeated global xpub key")
    /\ BuildFromPairs(dec.stream).err.kind = "DuplicateKey"

\* a stream that both functions take, to the same map with an xpub, a
\* version and no more
C28_Agreed ==
    /\ DecodedStreamWithTx
    /\ IsSome(global)
    /\ Len(dec.stream) = 3
    /\ DOMAIN Unwrap(global).xpub # {}
    /\ Unwrap(global).version = 2
    /\ BuildFromPairs(dec.stream).ok
    /\ Some(BuildFromPairs(dec.stream).val) = global
    /\ \A i \in DOMAIN dec.stream : ArmsAlike(dec.stream, i)

(***************************************************************************)
(* consensus_decode on a stream of bytes.  The decoder of the              *)
(* specification above is handed its pairs one by one; here it reads them  *)
(* from a finite byte string with raw::Pair::consensus_decode              *)
(* (util/psbt/raw.rs), and the derivation path loop of the xpub arm        *)
(* (global.rs 226-233) is taken turn by turn.  dec carries, next to its    *)
(* fields above:                                                           *)
(*   bytes   what is left of the stream                                    *)
(*   pair    the xpub pair whose path is being read                        *)
(*   left    what is left of its value, path the child indexes read        *)
(***************************************************************************)

NoMorePairs == Error("NoMorePairs", <<>>)

\* raw::Key::consensus_decode: a length, which counts the type byte and is
\* 0 in the end-of-map marker, the type byte, the key data
RawKeyDecode(s) ==
    Then(ReadVarInt(s), LAMBDA n :
    IF n.val = 0 THEN PErr(NoMorePairs)
    ELSE Then(ReadU8(n.rest), LAMBDA t :
         Then(ReadN(t.rest, n.val - 1), LAMBDA k :
         POk(Key(t.val, k.val), k.rest))))

\* raw::Pair::consensus_decode that leaves the reader where it was
RawPairDecodePeek(s) ==
    Then(RawKeyDecode(s), LAMBDA k :
    Then(ReadBytes(k.rest), LAMBDA v :
    POk([key |-> k.val, value |-> v.val], s)))

\* raw::Pair::consensus_decode: the key, then the value as a Vec<u8>
RawPairDecode(s) ==
    Then(RawKeyDecode(s), LAMBDA k :
    Then(ReadBytes(k.rest), LAMBDA v :
    POk([key |-> k.val, value |-> v.val], v.rest)))

\* raw::Pair::consensus_encode
RawPairEncode(p) ==
    WriteVarInt(Len(p.key.key) + 1) \o <<p.key.type_value>> \o p.key.key \o WriteBytes(p.value)

\* the xpub arm gets as far as its path loop (global.rs 216-226)
EntersPathLoop(pair) ==
    /\ pair.key.type_value = PSBT_GLOBAL_XPUB
    /\ pair.key.key # <<>>
    /\ DeserializeXpub(pair.key.key).ok
    /\ Len(pair.value) >= FingerprintLen

MaxStreamPairs == 2

StreamPairs ==
    { Pair(0, <<>>, WriteUnsignedTx(TxOneInput)),
      Pair(0, <<>>, WriteUnsignedTx(TxSecondSigned)),
      Pair(1, XpubA, FingerprintA \o <<44, 0, 0, 0>> \o <<1, 2, 3, 4>>),
      Pair(1, XpubA, FingerprintA),
      Pair(1, XpubB, FingerprintA \o <<44, 0, 0, 0>> \o <<1, 2, 3>>),
      Pair(1, XpubB, <<1, 2>>),
      Pair(251, <<>>, LE32(1)),
      Pair(251, <<>>, <<1, 0, 0>>),
      Pair(252, PropKeyBytes, <<1>>),
      Pair(66, <<7>>, <<>>) }

\* the streams of up to MaxStreamPairs pairs
PairStreams == UNION {[1..n -> StreamPairs] : n \in 0..MaxStreamPairs}

\* how a stream of bytes ends: with the marker, with the marker and bytes of
\* the next map after it, without a marker, or in the middle of a length
StreamEnds == {<<0>>, <<0, 1, 0, 0, 0>>, <<>>, <<253>>}

DropLast(s) == IF s = <<>> THEN s ELSE SubSeq(s, 1, Len(s) - 1)

RECURSIVE EncodePairs(_)
EncodePairs(pairs) ==
    IF pairs = <<>> THEN <<>> ELSE RawPairEncode(pairs[1]) \o EncodePairs(Tail(pairs))

\* the byte strings decoded: whole streams, and streams cut off one byte
\* before their end
ByteStreams ==
    {EncodePairs(ps) \o e : ps \in PairStreams, e \in StreamEnds}
        \cup {DropLast(EncodePairs(ps)) : ps \in PairStreams}

ByteIdle(bytes) ==
    [pc |-> "idle", locals |-> DecodeLocals, stream |-> <<>>, ended |-> "", res |-> NoRes,
     bytes |-> bytes, pair |-> NoPair, left |-> <<>>, path |-> <<>>]

ByteInit ==
    /\ input = InputDefault
    /\ in_last = NoCall
    /\ in_calls = 0
    /\ in_keys = {}
    /\ global = None
    /\ g_last = NoCall
    /\ g_calls = 0
    /\ g_keys = {}
    /\ dec \in {ByteIdle(bytes) : bytes \in ByteStreams}
    /\ std_eof_seek = FALSE
    /\ mrg = MergeIdle
    /\ adr = AddrIdle

ByteUnchanged ==
    UNCHANGED <<input, in_last, in_calls, in_keys, g_last, g_calls, g_keys, mrg, adr>>

\* consensus_decode(d) is called
ByteDecodeStart ==
    /\ dec.pc = "idle"
    /\ dec' = [dec EXCEPT !.pc = "loop"]
    /\ std_eof_seek' \in BOOLEAN
    /\ UNCHANGED global
    /\ ByteUnchanged

\* one turn of the outer loop on Ok(pair) (global.rs 162-254): the arm for
\* the pair's tag, or, for an xpub pair, the arm up to its path loop
ByteDecodePair ==
    /\ dec.pc = "loop"
    /\ LET r == RawPairDecode(dec.bytes)
       IN  /\ r.ok
           /\ IF EntersPathLoop(r.val)
              THEN dec' = [dec EXCEPT !.pc = "path", !.bytes = r.rest, !.pair = r.val,
                                      !.left = Drop(r.val.value, FingerprintLen),
                                      !.path = <<>>]
              ELSE LET a == DecodePairArm(dec.locals, r.val, std_eof_seek)
                   IN  dec' = IF IsOk(a.res)
                              THEN [dec EXCEPT !.locals = a.map, !.bytes = r.rest,
                                               !.stream = Append(@, r.val)]
                              ELSE [dec EXCEPT !.pc = "done", !.bytes = r.rest,
                                               !.stream = Append(@, r.val),
                                               !.ended = "pair", !.res = a.res]
    /\ UNCHANGED <<global, std_eof_seek>>
    /\ ByteUnchanged

\* one turn of the path loop on Ok(index) (global.rs 228-230)
PathPush ==
    /\ dec.pc = "path"
    /\ ReadU32(dec.left).ok
    /\ dec' = [dec EXCEPT !.left = ReadU32(dec.left).rest,
                          !.path = Append(@, ReadU32(dec.left).val)]
    /\ UNCHANGED <<global, std_eof_seek>>
    /\ ByteUnchanged

\* the path loop on Err(_) => break, and the rest of the xpub arm
\* (global.rs 231-241)
PathBreak ==
    /\ dec.pc = "path"
    /\ ~ReadU32(dec.left).ok
    /\ LET src == XpubSource(Len(dec.pair.value),
                             ReadN(dec.pair.value, FingerprintLen),
                             [path |-> dec.path, left |-> dec.left], std_eof_seek)
           a == PutXpub(dec.locals, DeserializeXpub(dec.pair.key.key), src)
       IN  dec' = IF IsOk(a.res)
                  THEN [dec EXCEPT !.pc = "loop", !.locals = a.map,
                                   !.stream = Append(@, dec.pair)]
                  ELSE [dec EXCEPT !.pc = "done", !.stream = Append(@, dec.pair),
                                   !.ended = "pair", !.res = a.res]
    /\ UNCHANGED <<global, std_eof_seek>>
    /\ ByteUnchanged

\* the outer loop on Err(NoMorePairs) => break, and the end of the function
\* (global.rs 256, 261-270)
ByteDecodeEnd ==
    /\ dec.pc = "loop"
    /\ RawPairDecode(dec.bytes).err = NoMorePairs
    /\ LET r == DecodeFinish(dec.locals)
       IN  /\ dec' = [dec EXCEPT !.pc = "done", !.bytes = Tail(@), !.ended = "marker",
                                 !.res = r.err]
           /\ global' = IF r.ok THEN Some(r.val) ELSE None
    /\ UNCHANGED std_eof_seek
    /\ ByteUnchanged

\* the outer loop on Err(e) => return Err(e) (global.rs 257)
ByteDecodeError ==
    /\ dec.pc = "loop"
    /\ ~RawPairDecode(dec.bytes).ok
    /\ RawPairDecode(dec.bytes).err # NoMorePairs
    /\ dec' = [dec EXCEPT !.pc = "done", !.ended = "read", !.res = RawPairDecode(dec.bytes).err]
    /\ UNCHANGED <<global, std_eof_seek>>
    /\ ByteUnchanged

\* the steps of a call that is under way
ByteDecodeRun ==
    \/ ByteDecodePair
    \/ PathPush
    \/ PathBreak
    \/ ByteDecodeEnd
    \/ ByteDecodeError

ByteNext ==
    \/ ByteDecodeStart
    \/ ByteDecodePair
    \/ PathPush
    \/ PathBreak
    \/ ByteDecodeEnd
    \/ ByteDecodeError

\* a call, once made, runs on: the function is sequential code and no step
\* of it waits for anything
ByteSpec == ByteInit /\ [][ByteNext]_vars /\ WF_vars(ByteDecodeRun)

\* the outer loop is left only on the end-of-map marker or on an error, the
\* first of either: with the marker next in the stream the function returns
\* what the pairs before it amount to, and no pair is read after a failure
LeftAtFirstEnd ==
    /\ (dec.pc = "loop" /\ RawPairDecode(dec.bytes).err = NoMorePairs)
           => dec'.pc = "done" /\ dec'.ended = "marker" /\ dec'.stream = dec.stream
    /\ (dec.pc = "loop" /\ ~RawPairDecode(dec.bytes).ok /\ RawPairDecode(dec.bytes).err # NoMorePairs)
           => dec'.pc = "done" /\ dec'.res = RawPairDecode(dec.bytes).err
    /\ (dec.pc = "loop" /\ dec'.pc = "done")
           => \/ dec'.ended = "marker" /\ dec.bytes # <<>> /\ dec.bytes[1] = 0
              \/ ~IsOk(dec'.res)
    /\ dec.pc = "done" => dec' = dec

\* every pair read, and the marker, takes at least one byte off the stream
StreamConsumed ==
    (dec.pc = "loop" /\ (dec'.stream # dec.stream \/ dec'.pc = "path" \/ dec'.ended = "marker"))
        => /\ Len(dec'.bytes) < Len(dec.bytes)
           /\ dec'.bytes = SubSeq(dec.bytes, Len(dec.bytes) - Len(dec'.bytes) + 1, Len(dec.bytes))

\* the path loop takes four bytes of the value per turn and is left once
\* fewer than four remain; what it has read by then is the path the xpub arm
\* stores
PathLoopEnds ==
    /\ (dec.pc = "path" /\ dec'.pc = "path")
           => /\ Len(dec.left) >= 4
              /\ dec'.left = Drop(dec.left, 4)
              /\ Len(dec'.path) = Len(dec.path) + 1
    /\ (dec.pc = "path" /\ dec'.pc # "path")
           => /\ Len(dec.left) < 4
              /\ FingerprintLen + 4 * Len(dec.path) + Len(dec.left) = Len(dec.pair.value)
              /\ dec.path = XpubPathLoop(Drop(dec.pair.value, FingerprintLen), <<>>).path
              /\ IsOk(dec'.res) => dec'.locals.xpub_map[dec.pair.key.key].path = dec.path

\* C29: Global decode terminates on every finite input: a call that has
\* begun returns; the outer loop ends at the first end-of-map marker or at
\* the first error, each turn taking at least one byte off the stream; and
\* the loop reading the child indexes of an xpub value ends once fewer than
\* four bytes of the value remain.
C29_DecodeTerminates ==
    /\ (dec.pc # "idle") ~> (dec.pc = "done")
    /\ [][LeftAtFirstEnd /\ StreamConsumed /\ PathLoopEnds]_vars

\* a stream of an xpub pair with two child indexes and a second pair was
\* decoded up to its marker, with bytes of the next map left in the stream
C29_Witness ==
    /\ dec.pc = "done"
    /\ dec.ended = "marker"
    /\ Len(dec.stream) = 2
    /\ dec.stream[1].key = Key(PSBT_GLOBAL_XPUB, XpubA)
    /\ IsSome(global)
    /\ Len(Unwrap(global).xpub[XpubA].path) = 2
    /\ dec.bytes = <<1, 0, 0, 0>>

\* the path loop was left with three bytes of the value unread
C29_WitnessPathLeft ==
    /\ dec.pc = "path"
    /\ Len(dec.path) = 1
    /\ Len(dec.left) = 3

\* the stream ran out in the middle of a pair
C29_WitnessCutOff ==
    /\ dec.pc = "done"
    /\ dec.ended = "read"
    /\ Len(dec.stream) = 1
    /\ dec.res = EofErr

====
